---- MODULE Spec2Model ----
(***************************************************************************)
(* Model of the langgraph-ecommerce assistant:                             *)
(*   - the Retrieval Workflow (graphs/manual_rag_workflow.py and           *)
(*     graphs/rag_workflow.py),                                            *)
(*   - the Dispatch Graph (graphs/chat_workflow.py, graphs/nodes.py),      *)
(*   - the Session Context Store (services/context_service.py).            *)
(* Similarity scores and thresholds are written in units of 1/100 (60      *)
(* stands for 0.60).  The program computes the mean in binary64; the model *)
(* compares the exact mean and lists the score lists for which the rounded *)
(* quotient compares differently (Binary64Shortfall).                      *)
(***************************************************************************)
EXTENDS Integers, Sequences, FiniteSets, TLC

\* ------------------------------------------------------------------ bounds
MaxDocs == 3
MaxToolDocs == 2
MaxQuery == 1
MaxTicks == 3
MaxRuns == 2
MaxOrders == 1
MaxProducts == 2
MaxRefs == 2
MaxPhrases == 2
MaxStock == 2
MaxQuantity == 2
MaxPlaced == 3

\* --------------------------------------------------------------- constants
MAX_RETRIES == 3
AGENT_SIMILARITY_THRESHOLD == 60
TTL_MINUTES == 60
\* granularity of the modelled clock: two ticks make one TTL
TickMinutes == TTL_MINUTES \div 2

NoScore == -1
\* a document is represented by its metadata["score"]; similarity_search
\* sets it to 1.0 - distance on every document
ScoreVals == {10, 35, 50, 60, 90}
Thresholds == {35, 60}
Queries == 0..MaxQuery
OriginalQuery == 0

VARIABLES
    \* Retrieval Workflow run
    wf,               \* "manual" or "agentic" (api/routes/rag.py)
    rpc,              \* node about to run, or "grade", "end", "failed"
    messages,         \* ManualRAGState / MessagesState "messages"
    retry_count,      \* state "retry_count"
    documents,        \* ManualRAGState "documents"
    next_id,          \* next fresh message id handed out by add_messages
    threshold,        \* settings.rag_similarity_threshold
    use_llm_rewriting,\* RAGAgent.use_llm_rewriting
    n_retrieve,       \* similarity searches issued in this run
    n_rewrite,        \* rag_agent.rewrite_question calls in this run
    n_generate,       \* generation model calls in this run
    last_query,       \* query string of the most recent search
    terminals,        \* terminal nodes executed in this run
    rewrite_outcome   \* how the most recent rag_agent.rewrite_question went

ragVars == <<wf, rpc, messages, retry_count, documents, next_id, threshold,
             use_llm_rewriting, n_retrieve, n_rewrite, n_generate,
             last_query, terminals, rewrite_outcome>>

VARIABLES
    \* process configuration
    llm_configured,   \* LLMService() succeeds (settings are cached)
    \* Session Context Store
    storage,          \* ContextService._storage: session id -> object, 0 = absent
    heap,             \* SessionContext objects by reference
    now,              \* datetime.now(), minutes
    \* Dispatch Graph runs
    req,              \* run slot -> state of the run in flight
    done,             \* the run the last step finished, else NoDone
    runs,             \* runs started so far
    orders,           \* orders created so far
    \* observation of the store operations
    cleared,          \* session id -> "no", or what clear_context found (no save since)
    last_op,          \* most recent store operation
    got               \* most recent get_context call

chatVars == <<llm_configured, storage, heap, now, req, done, runs, orders,
              cleared, last_op, got>>

VARIABLES
    \* Intent Classifier
    cls               \* the most recent classify call: its input and its result

VARIABLES
    \* Payment Workflow
    pay               \* the run of the payment graph: its state and position

VARIABLES
    \* products and orders collections
    shop              \* the stock of one product and the orders being created

vars == <<ragVars, chatVars, cls, pay, shop>>

\* ---------------------------------------------------------------- helpers
RECURSIVE SeqsUpTo(_, _)
SeqsUpTo(S, n) ==
    IF n = 0 THEN {<<>>}
    ELSE LET shorter == SeqsUpTo(S, n - 1)
         IN shorter \cup {Append(s, x) : s \in {t \in shorter : Len(t) = n - 1}, x \in S}

\* the vector store answers nearest first
Descending(s) == \A i \in 1..(Len(s) - 1) : s[i] >= s[i + 1]

\* what a similarity search can return
DocLists == {s \in SeqsUpTo(ScoreVals, MaxDocs) : Descending(s)}

\* documents the retriever tool formats into one tool message
ToolDocVals == {NoScore, 90}
ToolDocLists == SeqsUpTo(ToolDocVals, MaxToolDocs)

RECURSIVE SumSeq(_)
SumSeq(s) == IF s = <<>> THEN 0 ELSE Head(s) + SumSeq(Tail(s))

\* doc.metadata.get("score", 0)
DocScore(d) == IF d = NoScore THEN 0 ELSE d

Scores(docs) == [i \in 1..Len(docs) |-> DocScore(docs[i])]

HumanMessage(q) == [role |-> "human", text |-> q, kind |-> "query", docs |-> <<>>, id |-> 0]
AIMessage(k, q) == [role |-> "ai", text |-> q, kind |-> k, docs |-> <<>>, id |-> 0]
ToolMessage(k, d) == [role |-> "tool", text |-> -1, kind |-> k, docs |-> d, id |-> 0]

\* langgraph add_messages: messages without an id get a fresh one; a message
\* whose id is already in the history replaces it in place, any other message
\* is appended.
RECURSIVE AddMessages(_, _, _)
AddMessages(left, right, nid) ==
    IF right = <<>> THEN left
    ELSE LET m == Head(right)
         IN IF m.id = 0
            THEN AddMessages(Append(left, [m EXCEPT !.id = nid]), Tail(right), nid + 1)
            ELSE IF \E i \in 1..Len(left) : left[i].id = m.id
                 THEN LET i == CHOOSE j \in 1..Len(left) : left[j].id = m.id
                      IN AddMessages([left EXCEPT ![i] = m], Tail(right), nid)
                 ELSE AddMessages(Append(left, m), Tail(right), nid)

FreshCount(right) == Cardinality({i \in 1..Len(right) : right[i].id = 0})

Last(s) == s[Len(s)]
ButLast(s) == SubSeq(s, 1, Len(s) - 1)

HumanMessages(ms) == SelectSeq(ms, LAMBDA m : m.role = "human")
ToolMessages(ms) == SelectSeq(ms, LAMBDA m : m.role = "tool")

\* ------------------------------------------------- manual workflow: grading
\* sum(scores) / len(scores) is evaluated left to right in binary64.  For the
\* descending lists of up to five scores drawn from 0.10, 0.35, 0.50, 0.60,
\* 0.90 and the thresholds 0.35 and 0.60 the rounded quotient compares with
\* the threshold as the exact mean does, with one exception: 0.35 + 0.35 +
\* 0.35 is 1.0499999999999998 and a third of it 0.3499999999999999.
Binary64Shortfall(scores, thr) == thr = 35 /\ scores = <<35, 35, 35>>

\* avg_score = sum(scores) / len(scores); avg_score >= threshold
GradeDocumentsByScore(docs, thr) ==
    IF docs = <<>> THEN FALSE
    ELSE /\ SumSeq(Scores(docs)) >= thr * Len(docs)
         /\ ~Binary64Shortfall(Scores(docs), thr)

\* grading that never gives up
GradeNoRetryCheck(docs, rc, thr) ==
    IF docs = <<>> THEN "no_answer"
    ELSE IF GradeDocumentsByScore(docs, thr) THEN "generate_answer"
    ELSE "rewrite_question"

\* grading that scores an empty result like any other
GradeEmptyAfterRetry(docs, rc, thr) ==
    IF rc >= MAX_RETRIES THEN "no_answer"
    ELSE IF GradeDocumentsByScore(docs, thr) THEN "generate_answer"
    ELSE "rewrite_question"

\* grading that looks at the scores before it looks at the retry bound
GradeScoreBeforeRetry(docs, rc, thr) ==
    IF docs = <<>> THEN "no_answer"
    ELSE IF GradeDocumentsByScore(docs, thr) THEN "generate_answer"
    ELSE IF rc >= MAX_RETRIES THEN "no_answer"
    ELSE "rewrite_question"

\* grade_documents of the manual workflow (the conditional edge of "retrieve")
ManualGrade(docs, rc, thr) ==
    IF docs = <<>> THEN "no_answer"
    ELSE IF rc >= MAX_RETRIES THEN "no_answer"
    ELSE IF GradeDocumentsByScore(docs, thr) THEN "generate_answer"
    ELSE "rewrite_question"

\* the edge map of add_conditional_edges
EdgeTarget(label) ==
    CASE label = "generate_answer" -> "generate_answer"
      [] label = "rewrite_question" -> "rewrite_question"
      [] label = "no_answer" -> "no_answer_available"

\* ------------------------------------------------ agentic workflow: grading
\* RAGAgent.grade_documents on the scores parsed from the tool message
AgentGradeDocuments(docs) ==
    LET scores == Scores(docs)
    IN IF scores = <<>> THEN TRUE
       ELSE SumSeq(scores) >= AGENT_SIMILARITY_THRESHOLD * Len(scores)

\* grade_documents of the agentic workflow
AgenticGrade(ms, rc) ==
    LET tm == ToolMessages(ms)
    IN IF tm = <<>> THEN "no_answer"
       ELSE IF Last(tm).kind \in {"none", "error"} THEN "no_answer"
       ELSE IF rc >= MAX_RETRIES THEN "no_answer"
       ELSE IF HumanMessages(ms) = <<>> THEN "no_answer"
       ELSE IF AgentGradeDocuments(Last(tm).docs) THEN "generate_answer"
       ELSE "rewrite_question"

\* a rewrite that asks the model whether rewriting is enabled or not
RewriteResultsAlwaysModel(q, enabled) == Queries

\* RAGAgent.rewrite_question: the query itself when rewriting is disabled or
\* the model call fails, otherwise whatever the model answers.
RewriteResults(q, enabled) == IF enabled THEN Queries ELSE {q}

\* how a call of RAGAgent.rewrite_question can go: the model is not asked,
\* the model call fails, or the model answers
RewriteOutcomes(enabled) == IF enabled THEN {"failed", "answered"} ELSE {"skipped"}

\* a rewrite that does not count
RetryIncrementNone(rc) == rc

\* a rewrite that counts twice
RetryIncrementTwo(rc) == rc + 2

\* retry_count + 1 in rewrite_question
RetryIncrement(rc) == rc + 1

\* ====================================================== Session Context Store
Sessions == {1, 2}
Slots == {1, 2}
Refs == 1..(Cardinality(Sessions) + Cardinality(Slots))
NoObj == [session_id |-> 0, last_viewed_products |-> <<>>, selected_product_id |-> 0,
          pending_order_id |-> 0, conversation_state |-> "none", last_updated |-> 0]

\* SessionContext(session_id=...) with the field defaults
NewSessionContext(sid, t) ==
    [session_id |-> sid, last_viewed_products |-> <<>>, selected_product_id |-> 0,
     pending_order_id |-> 0, conversation_state |-> "browsing", last_updated |-> t]

\* the field values of a context apart from its key and time stamp
Fields(ctx) ==
    [last_viewed_products |-> ctx.last_viewed_products,
     selected_product_id |-> ctx.selected_product_id,
     pending_order_id |-> ctx.pending_order_id,
     conversation_state |-> ctx.conversation_state]

DefaultFields == Fields(NewSessionContext(0, 0))

ExpiredAtTTL(ctx, t) == t - ctx.last_updated >= TTL_MINUTES

\* now - ctx.last_updated > self.ttl
Expired(ctx, t) == t - ctx.last_updated > TTL_MINUTES

\* a sweep that finds the expired entries and deletes none
CleanupKeepsAll(st, hp, t) == st

\* _cleanup_expired: the storage without the expired entries
CleanupExpired(st, hp, t) ==
    [s \in Sessions |-> IF st[s] # 0 /\ Expired(hp[st[s]], t) THEN 0 ELSE st[s]]

Referenced(st, rq) == {st[s] : s \in Sessions} \cup {rq[r].ctx : r \in Slots}

\* Objects no longer referenced by the store or by a run are reclaimed, and
\* the live objects are named in the order in which the store's entries and
\* then the runs refer to them (an object's address carries no meaning).
Collect(st, hp, rq) ==
    LET nS == Cardinality(Sessions)
        roots == [i \in 1..(nS + Cardinality(Slots)) |->
                     IF i <= nS THEN st[i] ELSE rq[i - nS].ctx]
        live == {roots[i] : i \in DOMAIN roots} \ {0}
        first(x) == CHOOSE i \in DOMAIN roots :
                        roots[i] = x /\ \A j \in 1..(i - 1) : roots[j] # x
        name(x) == IF x = 0 THEN 0
                   ELSE Cardinality({roots[j] : j \in 1..first(x)} \ {0})
    IN [storage |-> [s \in Sessions |-> name(st[s])],
        heap |-> [y \in Refs |-> IF \E x \in live : name(x) = y
                                 THEN hp[CHOOSE x \in live : name(x) = y]
                                 ELSE NoObj],
        req |-> [r \in Slots |-> [rq[r] EXCEPT !.ctx = name(@)]]]

FreshRef(st, rq) == CHOOSE x \in Refs : x \notin Referenced(st, rq)

\* a get_context that hands out a copy of the entry it finds
GetContextCopies(st, hp, rq, sid, t) ==
    LET swept == CleanupExpired(st, hp, t)
        x == FreshRef(swept, rq)
    IN IF swept[sid] = 0
       THEN [storage |-> [swept EXCEPT ![sid] = x],
             heap |-> [hp EXCEPT ![x] = NewSessionContext(sid, t)],
             ref |-> x]
       ELSE [storage |-> swept,
             heap |-> [hp EXCEPT ![x] = hp[swept[sid]]],
             ref |-> x]

\* a get_context that stamps the entry it returns
GetContextTouches(st, hp, rq, sid, t) ==
    LET swept == CleanupExpired(st, hp, t)
    IN IF swept[sid] = 0
       THEN LET x == FreshRef(swept, rq)
            IN [storage |-> [swept EXCEPT ![sid] = x],
                heap |-> [hp EXCEPT ![x] = NewSessionContext(sid, t)],
                ref |-> x]
       ELSE [storage |-> swept,
             heap |-> [hp EXCEPT ![swept[sid]].last_updated = t],
             ref |-> swept[sid]]

\* get_context: sweep, then get or create; yields the storage, the heap and
\* the returned object
GetContext(st, hp, rq, sid, t) ==
    LET swept == CleanupExpired(st, hp, t)
    IN IF swept[sid] = 0
       THEN LET x == FreshRef(swept, rq)
            IN [storage |-> [swept EXCEPT ![sid] = x],
                heap |-> [hp EXCEPT ![x] = NewSessionContext(sid, t)],
                ref |-> x]
       ELSE [storage |-> swept, heap |-> hp, ref |-> swept[sid]]

\* a save that leaves an entry that is already there alone
SaveKeepsExisting(st, hp, x, t) ==
    [storage |-> IF st[hp[x].session_id] # 0 THEN st
                 ELSE [st EXCEPT ![hp[x].session_id] = x],
     heap |-> [hp EXCEPT ![x].last_updated = t]]

\* save_context: stamp last_updated, upsert under the context's session id
SaveContext(st, hp, x, t) ==
    [storage |-> [st EXCEPT ![hp[x].session_id] = x],
     heap |-> [hp EXCEPT ![x].last_updated = t]]

ClearKeepsEntry(st, sid) == st

\* clear_context: delete the entry when present
StorageAfterClear(st, sid) == [st EXCEPT ![sid] = 0]

\* SessionContext.reset
ResetFields(ctx, t) ==
    [ctx EXCEPT !.last_viewed_products = <<>>, !.selected_product_id = 0,
                !.pending_order_id = 0, !.conversation_state = "browsing",
                !.last_updated = t]

NoOp == [op |-> "none", sid |-> 0, fields |-> DefaultFields]
NoGet == [sid |-> 0, fields |-> DefaultFields, after_clear |-> "no",
          in_row |-> FALSE, prev_fields |-> DefaultFields, age |-> -1,
          evicted |-> {}]

\* what a get_context call on sid is observed to do: the fields it returns,
\* whether the last store operation on sid was a clear (and of what), and,
\* when the last store operation was a get of sid too, what that get returned
\* and how old the entry is now; and the sessions whose entries the call
\* removed from the store
ObserveGet(sid, g) ==
    LET in_row == last_op.op = "get" /\ last_op.sid = sid
    IN [sid |-> sid,
        fields |-> Fields(g.heap[g.ref]),
        after_clear |-> cleared[sid],
        in_row |-> in_row,
        prev_fields |-> IF in_row THEN last_op.fields ELSE DefaultFields,
        age |-> IF in_row THEN now - heap[storage[sid]].last_updated ELSE -1,
        evicted |-> {s \in Sessions :
                        /\ storage[s] # 0
                        /\ \/ g.storage[s] = 0
                           \/ g.heap[g.storage[s]] # heap[storage[s]]}]

\* ============================================================ Dispatch Graph
IntentTypes == {"payment", "faq", "general", "escalation", "product_search",
                "order", "unknown"}
SessionNodes == {"payment", "product_search", "order"}
HandlerNodes == SessionNodes \cup {"conversation", "faq", "escalation"}
\* the products a search finds: none, or the first n of the catalogue
SearchResults == {[i \in 1..n |-> i] : n \in 0..MaxProducts}

\* route_by_intent
RouteByIntent(intent) ==
    IF intent = "payment" THEN "payment"
    ELSE IF intent = "faq" THEN "faq"
    ELSE IF intent = "escalation" THEN "escalation"
    ELSE IF intent = "product_search" THEN "product_search"
    ELSE IF intent = "order" THEN "order"
    ELSE "conversation"

\* the fixed string a node returns from its except branch
Fallback(node) == "fallback_" \o node

\* the references to a listed product that OrderAgent.process looks for in
\* the lower-cased message: "first" stands for any of "first", "#1", "1st",
\* "second" for "second", "#2", "2nd", "third" for "third", "#3", "3rd" and
\* "that" for "that", "this", "it"
References == {"first", "second", "third", "that"}
MessageReferences == {refs \in SUBSET References : Cardinality(refs) <= MaxRefs}
\* the products of the catalogue (seed_data: prod_001, prod_002, ...)
Catalogue == 1..MaxProducts

\* what a handler did with the message: its reply, the model calls it made,
\* for the order handler the references in the message, the product the
\* rules selected and the order created, for the payment handler whether the
\* message named an order, the order it looked up and that order's status
NoDetail == [reply |-> "none", model_calls |-> 0, refs |-> {}, selected |-> 0,
             order_id |-> 0, explicit |-> FALSE, status |-> "none"]

IdleRun == [pc |-> "idle", via |-> "none", sid |-> 0, empty |-> FALSE,
            intent |-> "none", classify_raised |-> FALSE, ctx |-> 0,
            trace |-> <<>>, events |-> <<>>]
NoDone == [outcome |-> "none", via |-> "none", sid |-> 0, empty |-> FALSE,
           intent |-> "none", classify_raised |-> FALSE, trace |-> <<>>,
           events |-> <<>>, final_response |-> "none", detail |-> NoDetail]

\* what is known of the run of slot r when it is over: returned ("end") or
\* aborted by an exception ("raised")
Outcome(r, outcome, trace, evs, final, detail) ==
    [outcome |-> outcome, via |-> req[r].via, sid |-> req[r].sid,
     empty |-> req[r].empty, intent |-> req[r].intent,
     classify_raised |-> req[r].classify_raised, trace |-> trace,
     events |-> req[r].events \o evs, final_response |-> final,
     detail |-> detail]

\* chat: the status and the message of the HTTP answer to a run's outcome;
\* an exception out of workflow.ainvoke becomes HTTPException(500)
ChatStatus(d) == IF d.outcome = "raised" THEN 500 ELSE 200

\* the run of slot r ends in node; the slot is free again
Finished(r, outcome, node, evs, final) ==
    /\ done' = Outcome(r, outcome, Append(req[r].trace, node), evs, final,
                        NoDetail)
    /\ req' = [req EXCEPT ![r] = IdleRun]

ChatInit ==
    /\ llm_configured \in BOOLEAN
    /\ storage = [s \in Sessions |-> 0]
    /\ heap = [x \in Refs |-> NoObj]
    /\ now = 0
    /\ req = [r \in Slots |-> IdleRun]
    /\ done = NoDone
    /\ runs = 0
    /\ orders = 0
    /\ cleared = [s \in Sessions |-> "no"]
    /\ last_op = NoOp
    /\ got = NoGet

\* workflow.ainvoke(initial_state) on a free slot
StartRun(r) ==
    /\ UNCHANGED <<ragVars, cls, pay, shop>>
    /\ req[r].pc = "idle"
    /\ runs < MaxRuns
    /\ \E s \in Sessions, e \in BOOLEAN :
         req' = [req EXCEPT ![r] = [IdleRun EXCEPT !.pc = "classify_intent",
                                                   !.via = "graph",
                                                   !.sid = s, !.empty = e]]
    /\ runs' = runs + 1
    /\ UNCHANGED <<llm_configured, storage, heap, now, orders, cleared,
                   last_op>>
    /\ done' = NoDone
    /\ got' = NoGet

\* payment_node, product_search_node or order_node called on a state of the
\* caller's making rather than by the graph
InvokeSessionNode(r) ==
    /\ UNCHANGED <<ragVars, cls, pay, shop>>
    /\ req[r].pc = "idle"
    /\ runs < MaxRuns
    /\ \E node \in SessionNodes, s \in Sessions, e \in BOOLEAN :
         req' = [req EXCEPT ![r] = [IdleRun EXCEPT !.pc = node, !.via = "node",
                                                   !.sid = s, !.empty = e]]
    /\ runs' = runs + 1
    /\ UNCHANGED <<llm_configured, storage, heap, now, orders, cleared, last_op>>
    /\ done' = NoDone
    /\ got' = NoGet

\* classify_intent_node without its except branch: an exception of
\* classifier.classify leaves the node
ClassifyIntentNodeUncaught(r) ==
    /\ UNCHANGED <<ragVars, cls, pay, shop>>
    /\ req[r].pc = "classify_intent"
    /\ \E classified \in IntentTypes, raised \in BOOLEAN :
         LET fails == raised \/ req[r].empty
         IN IF ~llm_configured
            THEN Finished(r, "raised", "classify_intent", <<>>, "none")
            ELSE IF fails
            THEN /\ done' = [Outcome(r, "raised",
                                     Append(req[r].trace, "classify_intent"),
                                     <<>>, "none", NoDetail)
                               EXCEPT !.classify_raised = TRUE]
                 /\ req' = [req EXCEPT ![r] = IdleRun]
            ELSE /\ req' = [req EXCEPT ![r].pc = RouteByIntent(classified),
                                       ![r].intent = classified,
                                       ![r].trace = Append(@, "classify_intent")]
                 /\ done' = NoDone
    /\ UNCHANGED <<llm_configured, storage, heap, now, runs, orders, cleared,
                   last_op>>
    /\ got' = NoGet

\* classify_intent_node followed by the conditional edge route_by_intent.
\* LLMService() is built outside the try block; classifier.classify raises
\* for an empty message list, which the node turns into GENERAL.
ClassifyIntentNode(r) ==
    /\ UNCHANGED <<ragVars, cls, pay, shop>>
    /\ req[r].pc = "classify_intent"
    /\ IF ~llm_configured
       THEN Finished(r, "raised", "classify_intent", <<>>, "none")
       ELSE /\ \E classified \in IntentTypes, raised \in BOOLEAN :
                 LET fails == raised \/ req[r].empty
                     intent == IF fails THEN "general" ELSE classified
                 IN req' = [req EXCEPT ![r].pc = RouteByIntent(intent),
                                       ![r].intent = intent,
                                       ![r].classify_raised = fails,
                                       ![r].trace = Append(@, "classify_intent")]
            /\ done' = NoDone
    /\ UNCHANGED <<llm_configured, storage, heap, now, runs, orders, cleared,
                   last_op>>
    /\ got' = NoGet

\* conversation_node: ConversationAgent.process raises for an empty message
\* list and when the model call fails
ConversationNode(r) ==
    /\ UNCHANGED <<ragVars, cls, pay, shop>>
    /\ req[r].pc = "conversation"
    /\ \E llm_fails \in BOOLEAN :
         Finished(r, "end", "conversation", <<"handler">>,
                  IF req[r].empty \/ llm_fails THEN Fallback("conversation")
                  ELSE "response")
    /\ UNCHANGED <<llm_configured, storage, heap, now, runs, orders, cleared,
                   last_op>>
    /\ got' = NoGet

\* faq_node: FAQAgent.process raises only for an empty message list
FaqNode(r) ==
    /\ UNCHANGED <<ragVars, cls, pay, shop>>
    /\ req[r].pc = "faq"
    /\ Finished(r, "end", "faq", <<"handler">>,
                IF req[r].empty THEN Fallback("faq") ELSE "response")
    /\ UNCHANGED <<llm_configured, storage, heap, now, runs, orders, cleared,
                   last_op>>
    /\ got' = NoGet

\* escalation_node: EscalationAgent is not imported by graphs/nodes.py, so
\* building the agent (outside the try block) raises NameError
EscalationNode(r) ==
    /\ UNCHANGED <<ragVars, cls, pay, shop>>
    /\ req[r].pc = "escalation"
    /\ Finished(r, "raised", "escalation", <<>>, "none")
    /\ UNCHANGED <<llm_configured, storage, heap, now, runs, orders, cleared,
                   last_op>>
    /\ got' = NoGet

\* _load_context: get_context unless a context is already attached
LoadsContext(r) == req[r].ctx = 0

\* first half of payment_node / product_search_node / order_node: _load_context,
\* building the service and the agent, up to the first await of agent.process
SessionNodeStart(r) ==
    /\ UNCHANGED <<ragVars, cls, pay, shop>>
    /\ req[r].pc \in SessionNodes
    /\ LET node == req[r].pc
           g == IF LoadsContext(r)
                THEN GetContext(storage, heap, req, req[r].sid, now)
                ELSE [storage |-> storage, heap |-> heap, ref |-> req[r].ctx]
           evs == IF LoadsContext(r) THEN <<"get">> ELSE <<>>
           \* LLMService() raises: the node is left through the exception
           rq == IF llm_configured
                 THEN [req EXCEPT ![r].pc = node \o "_await",
                                  ![r].ctx = g.ref,
                                  ![r].trace = Append(@, node),
                                  ![r].events = @ \o evs]
                 ELSE [req EXCEPT ![r] = IdleRun]
           c == Collect(g.storage, g.heap, rq)
       IN /\ storage' = c.storage
          /\ heap' = c.heap
          /\ req' = c.req
          /\ done' = IF llm_configured THEN NoDone
                     ELSE Outcome(r, "raised", Append(req[r].trace, node), evs,
                                  "none", NoDetail)
          /\ IF LoadsContext(r)
             THEN /\ got' = ObserveGet(req[r].sid, g)
                  /\ last_op' = [op |-> "get", sid |-> req[r].sid,
                                 fields |-> Fields(g.heap[g.ref])]
             ELSE /\ got' = NoGet
                  /\ UNCHANGED last_op
    /\ UNCHANGED <<llm_configured, now, runs, orders, cleared>>

\* what a save_context call is observed to do: the session id and the fields
\* of the context it was given
SaveObserved(x, sv) ==
    /\ cleared' = [cleared EXCEPT ![sv.heap[x].session_id] = "no"]
    /\ last_op' = [op |-> "save", sid |-> sv.heap[x].session_id,
                   fields |-> Fields(sv.heap[x])]

\* end of a session node whose handler left the context as hp: on the normal
\* path _save_context, then the reply; in the except branch (agent.process
\* raised) the fixed message and no _save_context
SessionNodeEnd(r, hp, raises, detail) ==
    LET x == req[r].ctx
        sv == SaveContext(storage, hp, x, now)
        free == [req EXCEPT ![r] = IdleRun]
        c == IF raises THEN Collect(storage, heap, free)
             ELSE Collect(sv.storage, sv.heap, free)
    IN /\ storage' = c.storage
       /\ heap' = c.heap
       /\ req' = c.req
       /\ IF raises
          THEN /\ done' = Outcome(r, "end", req[r].trace, <<"handler">>,
                                  Fallback(Last(req[r].trace)), NoDetail)
               /\ UNCHANGED <<cleared, last_op>>
          ELSE /\ done' = Outcome(r, "end", req[r].trace, <<"handler", "save">>,
                                  "response", detail)
               /\ SaveObserved(x, sv)

\* second half of product_search_node: ProductSearchAgent.process raises for
\* an empty message list; otherwise it stores the products it found in the
\* session context and sets the phase to browsing, and answers its own
\* failures with a message.
ProductSearchFinish(r) ==
    /\ UNCHANGED <<ragVars, cls, pay, shop>>
    /\ req[r].pc = "product_search_await"
    /\ \E products \in SearchResults :
         LET x == req[r].ctx
             hp == IF products = <<>> \/ req[r].empty THEN heap
                   ELSE [heap EXCEPT ![x].last_viewed_products = products,
                                     ![x].conversation_state = "browsing"]
         IN SessionNodeEnd(r, hp, req[r].empty,
                           [NoDetail EXCEPT !.reply = IF products = <<>>
                                                      THEN "no_products"
                                                      ELSE "found"])
    /\ UNCHANGED <<llm_configured, now, runs, orders>>
    /\ got' = NoGet

\* the branches of the chain tried in the opposite order
SmartSelectionThirdFirst(products, refs) ==
    IF products = <<>> THEN 0
    ELSE IF "third" \in refs
         THEN (IF Len(products) >= 3 THEN products[3] ELSE 0)
    ELSE IF "second" \in refs
         THEN (IF Len(products) >= 2 THEN products[2] ELSE 0)
    ELSE IF "first" \in refs
         THEN (IF Len(products) >= 1 THEN products[1] ELSE 0)
    ELSE IF "that" \in refs
         THEN (IF Len(products) >= 1 THEN products[1] ELSE 0)
    ELSE 0

\* OrderAgent.process, smart selection from context: the first branch of the
\* if/elif chain whose words the message contains decides, and it selects
\* only when the list is long enough; 0 when the rules select nothing
SmartSelection(products, refs) ==
    IF products = <<>> THEN 0
    ELSE IF "first" \in refs
         THEN (IF Len(products) >= 1 THEN products[1] ELSE 0)
    ELSE IF "second" \in refs
         THEN (IF Len(products) >= 2 THEN products[2] ELSE 0)
    ELSE IF "third" \in refs
         THEN (IF Len(products) >= 3 THEN products[3] ELSE 0)
    ELSE IF "that" \in refs
         THEN (IF Len(products) >= 1 THEN products[1] ELSE 0)
    ELSE 0

\* second half of order_node. OrderAgent.process selects a product by the
\* rules or, when they select nothing, from the model's answer (extracted: a
\* product of the catalogue, or 0 when the call fails or names none); the
\* order is created when the product is found, in stock and the order
\* service succeeds (available). When an order was created the node records
\* it as the pending order and sets the phase to ordered: it does so when
\* the context it handed to the agent holds the key order_id, which the
\* agent sets for a created order and which a request's metadata may hold
\* already. refs are the references the message holds, meta the order id in
\* the request's metadata (0 when the metadata has none).
OrderFinish(r, refs, meta) ==
    /\ UNCHANGED <<ragVars, cls, pay, shop>>
    /\ req[r].pc = "order_await"
    /\ \E extracted \in {0} \cup Catalogue, available \in BOOLEAN :
         LET x == req[r].ctx
             by_rule == SmartSelection(heap[x].last_viewed_products, refs)
             product == IF by_rule # 0 THEN by_rule ELSE extracted
             created == product # 0 /\ available
             detail == [NoDetail EXCEPT
                          !.refs = refs,
                          !.selected = by_rule,
                          !.model_calls = IF by_rule = 0 THEN 1 ELSE 0,
                          !.order_id = IF created THEN orders + 1 ELSE 0,
                          !.reply = IF created THEN "created"
                                    ELSE IF product = 0 THEN "unspecified"
                                    ELSE "unavailable"]
             agent_order_id == IF created THEN orders + 1 ELSE meta
             hp == IF agent_order_id # 0
                   THEN [heap EXCEPT ![x].pending_order_id = agent_order_id,
                                     ![x].conversation_state = "ordered"]
                   ELSE heap
         IN /\ req[r].empty => (extracted = 0 /\ ~available)
            \* the model is not asked when the rules selected a product, and
            \* nothing is looked up when no product was named
            /\ by_rule # 0 => extracted = 0
            /\ product = 0 => ~available
            /\ available => orders < MaxOrders
            /\ orders' = IF created /\ ~req[r].empty THEN orders + 1 ELSE orders
            /\ SessionNodeEnd(r, IF req[r].empty THEN heap ELSE hp,
                              req[r].empty, detail)
    /\ UNCHANGED <<llm_configured, now, runs>>
    /\ got' = NoGet

\* database.models.OrderStatus
OrderStatuses == {"pending", "confirmed", "paid", "shipped", "delivered",
                  "cancelled"}
\* what OrderService.get_order finds for the order a payment names
OrderLookups == {"missing", "pending", "paid"}
\* the fields of schemas.PaymentRequest
PaymentRequestFields == {"amount", "currency", "description", "metadata"}

\* PaymentProcessor.process_payment: building the payment document reads
\* payment_request.order_id inside the try block, and the AttributeError of
\* a missing field leaves the method as PaymentError
ProcessPayment ==
    IF "order_id" \in PaymentRequestFields THEN "pending" ELSE "raised"

\* PaymentAgent._process_order_payment: the kind of reply, or "raised"; the
\* comparison with OrderStatus.AWAITING_PAYMENT raises AttributeError when
\* the enumeration has no such member
ProcessOrderPayment(status) ==
    IF status = "missing" THEN "not_found"
    ELSE IF status = "paid" THEN "already_paid"
    ELSE IF "awaiting_payment" \notin OrderStatuses THEN "raised"
    ELSE IF status = "awaiting_payment" THEN "awaiting_payment"
    ELSE IF ProcessPayment = "raised" THEN "raised"
    ELSE "request_created"

\* the wording of each reply of PaymentAgent.process, lower-cased, as the
\* phrases it is made of
ReplyPhrases(reply) ==
    IF reply = "not_found" THEN {"order", "not found"}
    ELSE IF reply = "already_paid" THEN {"order", "has already been paid"}
    ELSE IF reply = "awaiting_payment"
    THEN {"order", "is already awaiting payment", "a payment request has been created"}
    ELSE IF reply = "request_created"
    THEN {"yeu cau thanh toan da duoc tao", "cho thanh toan", "thanh cong"}
    ELSE IF reply = "failed" THEN {"payment processing failed", "please try again"}
    ELSE {"please specify"}

\* "successful" in result.lower()
SaysSuccessful(reply) == "successful" \in ReplyPhrases(reply)

\* second half of payment_node: PaymentAgent.process takes the order named in
\* the message, else the pending order of the session; with an order it runs
\* _process_order_payment, whose exceptions it answers with a message, and
\* when the reply contains "successful" it clears the pending order and sets
\* the phase to completed; without an order it asks the model for an amount.
\* named is the order the message names (ord_...), 0 when it names none;
\* meta is the order id in the request's metadata, 0 when it has none, which
\* is used before the pending order.
PaymentFinish(r, named, meta) ==
    /\ UNCHANGED <<ragVars, cls, pay, shop>>
    /\ req[r].pc = "payment_await"
    /\ \E status \in OrderLookups :
         LET x == req[r].ctx
             order_in_message == named # 0
             order_id == IF order_in_message THEN named
                         ELSE IF meta # 0 THEN meta
                         ELSE heap[x].pending_order_id
             result == IF order_id # 0 THEN ProcessOrderPayment(status)
                       ELSE "regular"
             reply == IF result = "raised" THEN "failed" ELSE result
             detail == [NoDetail EXCEPT
                          !.explicit = order_in_message \/ meta # 0,
                          !.order_id = order_id,
                          !.status = IF order_id # 0 THEN status ELSE "none",
                          !.model_calls = IF order_id # 0 THEN 0 ELSE 1,
                          !.reply = reply]
             hp == IF order_id # 0 /\ result # "raised" /\ SaysSuccessful(reply)
                   THEN [heap EXCEPT ![x].pending_order_id = 0,
                                     ![x].conversation_state = "completed"]
                   ELSE heap
         IN /\ req[r].empty => status = "missing"
            \* no order is looked up when none is named or pending
            /\ order_id = 0 => status = "missing"
            /\ SessionNodeEnd(r, IF req[r].empty THEN heap ELSE hp,
                              req[r].empty, detail)
    /\ UNCHANGED <<llm_configured, now, runs, orders>>
    /\ got' = NoGet

\* ----------------------------------------------- the store's other callers
Tick ==
    /\ UNCHANGED <<ragVars, cls, pay, shop>>
    /\ now < MaxTicks * TickMinutes
    /\ now' = now + TickMinutes
    /\ UNCHANGED <<llm_configured, storage, heap, req, runs, orders, cleared,
                   last_op>>
    /\ done' = NoDone
    /\ got' = NoGet

ClearContext(s) ==
    /\ UNCHANGED <<ragVars, cls, pay, shop>>
    /\ LET c == Collect(StorageAfterClear(storage, s), heap, req)
       IN storage' = c.storage /\ heap' = c.heap /\ req' = c.req
    /\ cleared' = [cleared EXCEPT ![s] =
                      IF storage[s] = 0 THEN "absent"
                      ELSE IF Fields(heap[storage[s]]) = DefaultFields THEN "default"
                      ELSE "used"]
    /\ last_op' = [op |-> "clear", sid |-> s, fields |-> DefaultFields]
    /\ UNCHANGED <<llm_configured, now, runs, orders>>
    /\ done' = NoDone
    /\ got' = NoGet

\* reset_context: get_context, SessionContext.reset, save_context
ResetContext(s) ==
    LET g == GetContext(storage, heap, req, s, now)
        hp == [g.heap EXCEPT ![g.ref] = ResetFields(@, now)]
        sv == SaveContext(g.storage, hp, g.ref, now)
        c == Collect(sv.storage, sv.heap, req)
    IN /\ got' = ObserveGet(s, g)
       /\ SaveObserved(g.ref, sv)
       /\ storage' = c.storage /\ heap' = c.heap /\ req' = c.req
       /\ UNCHANGED <<llm_configured, now, runs, orders>>
       /\ UNCHANGED <<ragVars, cls, pay, shop>>
       /\ done' = NoDone

\* the Dispatch Graph serving requests
ChatNext ==
    \/ \E r \in Slots : StartRun(r)
    \/ \E r \in Slots : InvokeSessionNode(r)
    \/ \E r \in Slots : ClassifyIntentNode(r)
    \/ \E r \in Slots : ConversationNode(r)
    \/ \E r \in Slots : FaqNode(r)
    \/ \E r \in Slots : EscalationNode(r)
    \/ \E r \in Slots : SessionNodeStart(r)
    \/ \E r \in Slots : ProductSearchFinish(r)
    \/ \E r \in Slots, refs \in MessageReferences, meta \in 0..MaxOrders :
           OrderFinish(r, refs, meta)
    \/ \E r \in Slots, named \in 0..MaxOrders, meta \in 0..MaxOrders :
           PaymentFinish(r, named, meta)

\* the sessions followed over time
TimedSessions == {1}

\* the session store under its callers: the runs that reach payment_node,
\* product_search_node or order_node, the passing of time, and direct calls
\* of clear_context and reset_context; the messages name a product or an
\* order through the model only
StoreNext ==
    \/ \E r \in Slots : StartRun(r) /\ ~req'[r].empty /\ req'[r].sid \in TimedSessions
    \/ \E r \in Slots : ClassifyIntentNode(r) /\ req'[r].pc \in SessionNodes
    \/ \E r \in Slots : SessionNodeStart(r)
    \/ \E r \in Slots : ProductSearchFinish(r)
    \/ \E r \in Slots : OrderFinish(r, {}, 0)
    \/ \E r \in Slots : PaymentFinish(r, 0, 0)
    \/ Tick
    \/ \E s \in TimedSessions : ClearContext(s)
    \/ \E s \in TimedSessions : ResetContext(s)

\* ========================================================== Intent Classifier
\* A message text is a sequence of phrases.  The phrases stand for runs of
\* characters that hold the classifier's keywords in the ways the keyword
\* lists allow: alone, one inside another ("product" in "what products",
\* "that" in "i want that", "phone" and "one" in "iphone"), and in another
\* case ("Pay now").
Phrases == {"show me", "Show me", "what products", "laptop", "iphone",
            "i want the", "i want that", "first", "#2", "i want product",
            "pay now", "Pay now", "hello"}

Texts == SeqsUpTo(Phrases, MaxPhrases) \ {<<>>}

\* an earlier turn of the conversation
EarlierTurns == {<<"pay now">>}

\* state["messages"]: no message, the user's message, or an earlier turn
\* and the user's message
MessageLists ==
    {<<>>} \cup {<<t>> : t \in Texts} \cup {<<h, t>> : h \in EarlierTurns, t \in Texts}

\* str.lower()
Lower(text) ==
    [i \in 1..Len(text) |->
        CASE text[i] = "Show me" -> "show me"
          [] text[i] = "Pay now" -> "pay now"
          [] OTHER -> text[i]]

\* the keywords that are substrings of a phrase (str.__contains__ compares
\* characters, case included)
KeywordsIn(phrase) ==
    CASE phrase = "show me" -> {"show me"}
      [] phrase = "what products" -> {"what products", "product"}
      [] phrase = "laptop" -> {"laptop"}
      [] phrase = "iphone" -> {"iphone", "phone", "one"}
      [] phrase = "i want the" -> {"i want the"}
      [] phrase = "i want that" -> {"i want that", "that"}
      [] phrase = "first" -> {"first"}
      [] phrase = "#2" -> {"#2"}
      [] phrase = "i want product" -> {"i want product", "product"}
      [] phrase = "pay now" -> {"pay now"}
      [] OTHER -> {}

\* keyword in text
Contains(text, keyword) == \E i \in 1..Len(text) : keyword \in KeywordsIn(text[i])

\* any(keyword in text for keyword in keywords)
ContainsAny(text, keywords) == \E k \in keywords : Contains(text, k)

SearchKeywords == {"show me", "search for", "find me", "what products",
                   "do you have", "i want to buy"}
ProductNouns == {"laptop", "phone", "iphone", "ipad", "book", "shoes", "headphone"}
OrderKeywords == {"i want the", "i'll take", "i want that", "i want this",
                  "order the", "buy the"}
SelectionReferences == {"first", "second", "third", "one", "that", "this",
                        "#1", "#2", "#3"}
OrderProductKeywords == {"i want product", "order product"}
PaymentKeywords == {"pay now", "i want to pay", "process payment",
                    "make payment", "charge me"}

\* a search rule that does not ask for a product noun
SearchRuleTriggerOnly(lowered) == ContainsAny(lowered, SearchKeywords)

\* the conditions of the keyword rules on the lowered text
SearchRule(lowered) ==
    /\ ContainsAny(lowered, SearchKeywords)
    /\ Contains(lowered, "product") \/ ContainsAny(lowered, ProductNouns)
OrderRule(lowered) ==
    \/ ContainsAny(lowered, OrderKeywords) /\ ContainsAny(lowered, SelectionReferences)
    \/ ContainsAny(lowered, OrderProductKeywords)
PaymentRule(lowered) == ContainsAny(lowered, PaymentKeywords)

\* what the model call can give back: it fails, or it returns a text.  A
\* text is a body, bare or inside a ```json or ``` fence; a body is no JSON
\* at all, a JSON value that is no object, or an object with an intent and,
\* unless it is left out, a confidence (in 1/100).
Fences == {"none", "json", "plain"}
IntentStrings == {"faq", "FAQ", "order", "weather"}
Confidences == {0, 100, 101, -1}
NoConfidence == -100
Bodies ==
    {[kind |-> k, intent |-> "none", confidence |-> NoConfidence] :
        k \in {"garbage", "array", "number", "string", "null"}}
    \cup {[kind |-> "object", intent |-> i, confidence |-> c] :
             i \in IntentStrings, c \in Confidences \cup {NoConfidence}}
CallFailed == [fence |-> "none", body |-> [kind |-> "failed", intent |-> "none",
                                          confidence |-> NoConfidence]]
ModelOutputs == {[fence |-> f, body |-> b] : f \in Fences, b \in Bodies} \cup {CallFailed}

\* IntentClassification(...).model_dump_json()
ModelDumpJson(intent, confidence) ==
    [fence |-> "none", body |-> [kind |-> "object", intent |-> intent,
                                 confidence |-> confidence]]

\* a cascade that tries the payment rule before the order rule
ProcessPaymentFirst(msgs, output) ==
    IF msgs = <<>>
    THEN [raised |-> "AgentError", text |-> CallFailed, calls |-> 0]
    ELSE LET lowered == Lower(Last(msgs))
         IN IF SearchRule(lowered)
            THEN [raised |-> "none", text |-> ModelDumpJson("product_search", 95), calls |-> 0]
            ELSE IF PaymentRule(lowered)
            THEN [raised |-> "none", text |-> ModelDumpJson("payment", 95), calls |-> 0]
            ELSE IF OrderRule(lowered)
            THEN [raised |-> "none", text |-> ModelDumpJson("order", 95), calls |-> 0]
            ELSE IF output = CallFailed
            THEN [raised |-> "none", text |-> ModelDumpJson("general", 50), calls |-> 1]
            ELSE [raised |-> "none", text |-> output, calls |-> 1]

\* IntentClassifierAgent.process: the JSON text, the number of model calls
\* made, and whether it raised
Process(msgs, output) ==
    IF msgs = <<>>
    THEN [raised |-> "AgentError", text |-> CallFailed, calls |-> 0]
    ELSE LET lowered == Lower(Last(msgs))
         IN IF SearchRule(lowered)
            THEN [raised |-> "none", text |-> ModelDumpJson("product_search", 95), calls |-> 0]
            ELSE IF OrderRule(lowered)
            THEN [raised |-> "none", text |-> ModelDumpJson("order", 95), calls |-> 0]
            ELSE IF PaymentRule(lowered)
            THEN [raised |-> "none", text |-> ModelDumpJson("payment", 95), calls |-> 0]
            ELSE IF output = CallFailed
            THEN [raised |-> "none", text |-> ModelDumpJson("general", 50), calls |-> 1]
            ELSE [raised |-> "none", text |-> output, calls |-> 1]

\* _extract_json_from_response: the text without its fence
ExtractJsonFromResponse(text) == text.body

\* str.lower() on the intent of the parsed object
LowerIntent(intent) == IF intent = "FAQ" THEN "faq" ELSE intent

\* IntentClassification(**result_dict) accepts the object
Validates(body) ==
    /\ LowerIntent(body.intent) \in IntentTypes
    /\ body.confidence # NoConfidence
    /\ body.confidence >= 0
    /\ body.confidence <= 100

\* IntentClassifierAgent.classify: json.loads raises JSONDecodeError for what
\* is no JSON, the model raises ValidationError (a ValueError) for an object
\* it does not accept, and both are answered with the default; for a JSON
\* value that is no object, `"intent" in result_dict` or `**result_dict`
\* raises TypeError, which classify does not catch.
Classify(msgs, output) ==
    LET p == Process(msgs, output)
        body == ExtractJsonFromResponse(p.text)
        default == [raised |-> "none", intent |-> "general", confidence |-> 50,
                    calls |-> p.calls]
    IN IF p.raised # "none"
       THEN [raised |-> p.raised, intent |-> "none", confidence |-> NoConfidence,
             calls |-> p.calls]
       ELSE IF body.kind = "garbage" THEN default
       ELSE IF body.kind # "object"
       THEN [raised |-> "TypeError", intent |-> "none", confidence |-> NoConfidence,
             calls |-> p.calls]
       ELSE IF Validates(body)
       THEN [raised |-> "none", intent |-> LowerIntent(body.intent),
             confidence |-> body.confidence, calls |-> p.calls]
       ELSE default

NoCall == [called |-> FALSE, messages |-> <<>>, output |-> CallFailed,
           result |-> [raised |-> "none", intent |-> "none",
                       confidence |-> NoConfidence, calls |-> 0]]

\* no classify call observed
ClsIdle == cls = NoCall

\* classifier.classify(messages) on the message list at hand, the model
\* answering with the output at hand when it is called
ClassifyCall ==
    /\ UNCHANGED <<ragVars, chatVars, pay, shop>>
    /\ ~cls.called
    /\ cls' = [cls EXCEPT !.called = TRUE,
                          !.result = Classify(cls.messages, cls.output)]

ClassifierNext == ClassifyCall

\* ============================================================ Payment Workflow
\* state["amount"] as validate_payment_data sees it: a number, None (the key
\* is missing from the state) or a value that is no number
PayAmounts ==
    {[kind |-> "number", value |-> v] : v \in {-50, 0, 1, 100}}
    \cup {[kind |-> "none", value |-> 0], [kind |-> "text", value |-> 0]}
\* state["currency"]; "none" when the key is missing from the state
PayCurrencies == {"USD", "EUR", "GBP", "VND", "JPY", "usd", "none"}
ValidCurrencies == {"USD", "EUR", "GBP", "VND"}

\* validate_payment_data: the list of error messages
ValidatePaymentData(data) ==
    (IF ~data.has_amount THEN <<"Missing required field: amount">>
     ELSE IF data.amount.kind # "number" THEN <<"Amount must be a number">>
     ELSE IF data.amount.value <= 0 THEN <<"Amount must be greater than 0">>
     ELSE <<>>)
    \o (IF data.has_currency /\ data.currency \notin ValidCurrencies
        THEN <<"Invalid currency">>
        ELSE <<>>)

\* a routing that lets every payment through
ShouldProcessPaymentAlways(errors) == "process"

\* should_process_payment
ShouldProcessPayment(errors) == IF errors # <<>> THEN "end" ELSE "process"

NoPayment == [pc |-> "idle", runs |-> 0,
              amount |-> [kind |-> "none", value |-> 0], currency |-> "none",
              status |-> "none", validation_errors |-> <<>>, trace |-> <<>>,
              processor_calls |-> 0, payments |-> 0]

\* no payment graph run
PayIdle == pay = NoPayment

\* workflow.ainvoke(initial_state) on the graph compiled with a checkpointer:
\* the call is refused before any node runs when the config names no thread
PayInvoke ==
    /\ UNCHANGED <<ragVars, chatVars, cls, shop>>
    /\ pay.pc \in {"idle", "end", "refused"}
    /\ pay.runs < MaxRuns
    /\ \E amount \in PayAmounts, currency \in PayCurrencies, thread \in BOOLEAN :
         pay' = [NoPayment EXCEPT !.pc = IF thread THEN "validate" ELSE "refused",
                                  !.runs = pay.runs + 1,
                                  !.amount = amount,
                                  !.currency = currency,
                                  !.status = "pending"]

\* validate_payment_node followed by the conditional edge
PayValidate ==
    /\ UNCHANGED <<ragVars, chatVars, cls, shop>>
    /\ pay.pc = "validate"
    /\ LET errors == ValidatePaymentData([has_amount |-> TRUE,
                                          amount |-> pay.amount,
                                          has_currency |-> TRUE,
                                          currency |-> pay.currency])
       IN pay' = [pay EXCEPT !.status = IF errors # <<>> THEN "failed" ELSE "pending",
                             !.validation_errors = errors,
                             !.trace = Append(@, "validate"),
                             !.pc = ShouldProcessPayment(errors)]

\* process_payment_node: processor.process_payment(...) is called without
\* await, so the call returns a coroutine that is never run, response.status
\* raises AttributeError and the except branch answers with FAILED
PayProcess ==
    /\ UNCHANGED <<ragVars, chatVars, cls, shop>>
    /\ pay.pc = "process"
    /\ pay' = [pay EXCEPT !.processor_calls = @ + 1,
                          !.status = "failed",
                          !.validation_errors = <<"no attribute 'status'">>,
                          !.trace = Append(@, "process"),
                          !.pc = "end"]

PaymentNext ==
    \/ PayInvoke
    \/ PayValidate
    \/ PayProcess

\* ================================================= orders against the stock
Buyers == {1, 2}
IdleBuyer == [pc |-> "idle", quantity |-> 0]

\* the stock of the product in the products collection, the stock it began
\* with, the quantity of the orders inserted, and every create request in
\* flight; the database answers every call
ShopInit ==
    \E n \in 1..MaxStock :
        shop = [stock |-> n, initial |-> n, ordered |-> 0, placed |-> 0,
                buyers |-> [b \in Buyers |-> IdleBuyer]]

\* no order being created
ShopIdle ==
    shop = [stock |-> 0, initial |-> 0, ordered |-> 0, placed |-> 0,
            buyers |-> [b \in Buyers |-> IdleBuyer]]

\* ProductService.check_stock
CheckStock(stock, quantity) == stock >= quantity

\* OrderAgent.process reaches its stock check for an order of some quantity
PlaceOrder(b) ==
    /\ UNCHANGED <<ragVars, chatVars, cls, pay>>
    /\ shop.buyers[b].pc = "idle"
    /\ shop.placed < MaxPlaced
    /\ \E q \in 1..MaxQuantity :
         shop' = [shop EXCEPT !.placed = @ + 1,
                              !.buyers[b] = [pc |-> "agent_check", quantity |-> q]]

\* OrderAgent.process: await check_stock, then create_order or the
\* out-of-stock reply
AgentCheckStock(b) ==
    /\ UNCHANGED <<ragVars, chatVars, cls, pay>>
    /\ shop.buyers[b].pc = "agent_check"
    /\ shop' = IF CheckStock(shop.stock, shop.buyers[b].quantity)
               THEN [shop EXCEPT !.buyers[b].pc = "service_check"]
               ELSE [shop EXCEPT !.buyers[b] = IdleBuyer]

\* create_order: await check_stock, then the order is built or None returned
ServiceCheckStock(b) ==
    /\ UNCHANGED <<ragVars, chatVars, cls, pay>>
    /\ shop.buyers[b].pc = "service_check"
    /\ shop' = IF CheckStock(shop.stock, shop.buyers[b].quantity)
               THEN [shop EXCEPT !.buyers[b].pc = "insert"]
               ELSE [shop EXCEPT !.buyers[b] = IdleBuyer]

\* create_order: await collection.insert_one(order)
InsertOrder(b) ==
    /\ UNCHANGED <<ragVars, chatVars, cls, pay>>
    /\ shop.buyers[b].pc = "insert"
    /\ shop' = [shop EXCEPT !.ordered = @ + shop.buyers[b].quantity,
                            !.buyers[b].pc = "update_stock"]

\* create_order: await update_stock(product_id, -quantity), a $inc
UpdateStock(b) ==
    /\ UNCHANGED <<ragVars, chatVars, cls, pay>>
    /\ shop.buyers[b].pc = "update_stock"
    /\ shop' = [shop EXCEPT !.stock = @ - shop.buyers[b].quantity,
                            !.buyers[b] = IdleBuyer]

StockNext ==
    \/ \E b \in Buyers : PlaceOrder(b)
    \/ \E b \in Buyers : AgentCheckStock(b)
    \/ \E b \in Buyers : ServiceCheckStock(b)
    \/ \E b \in Buyers : InsertOrder(b)
    \/ \E b \in Buyers : UpdateStock(b)

\* no Retrieval Workflow run while the Dispatch Graph is examined
RagIdle ==
    /\ wf = "manual"
    /\ threshold = 60
    /\ use_llm_rewriting = FALSE
    /\ messages = <<>>
    /\ next_id = 1
    /\ retry_count = 0
    /\ documents = <<>>
    /\ rpc = "end"
    /\ n_retrieve = 0
    /\ n_rewrite = 0
    /\ n_generate = 0
    /\ last_query = -1
    /\ terminals = <<>>
    /\ rewrite_outcome = "none"

\* no Dispatch Graph run while the Retrieval Workflow is examined
ChatIdle ==
    /\ llm_configured = TRUE
    /\ storage = [s \in Sessions |-> 0]
    /\ heap = [x \in Refs |-> NoObj]
    /\ now = 0
    /\ req = [r \in Slots |-> IdleRun]
    /\ done = NoDone
    /\ runs = 0
    /\ orders = 0
    /\ cleared = [s \in Sessions |-> "no"]
    /\ last_op = NoOp
    /\ got = NoGet

ChatSpecInit == ChatInit /\ RagIdle /\ ClsIdle /\ PayIdle /\ ShopIdle

\* the classifier called on its own, on any message list and with any
\* behaviour of the model
ClassifierInit ==
    /\ \E msgs \in MessageLists, output \in ModelOutputs :
         cls = [NoCall EXCEPT !.messages = msgs, !.output = output]
    /\ RagIdle
    /\ ChatIdle
    /\ PayIdle
    /\ ShopIdle

ClassifierSpec == ClassifierInit /\ [][ClassifierNext]_vars

\* the payment graph run on its own
PaymentInit == PayIdle /\ RagIdle /\ ChatIdle /\ ClsIdle /\ ShopIdle

PaymentSpec == PaymentInit /\ [][PaymentNext]_vars

\* orders created at the same time for one product
StockInit == ShopInit /\ RagIdle /\ ChatIdle /\ ClsIdle /\ PayIdle

StockSpec == StockInit /\ [][StockNext]_vars

ChatSpec == ChatSpecInit /\ [][ChatNext]_vars

\* ------------------------------------------------------------ Rag: Init
RagInit ==
    /\ wf \in {"manual", "agentic"}
    /\ threshold \in Thresholds
    /\ use_llm_rewriting \in BOOLEAN
    /\ messages = AddMessages(<<>>, <<HumanMessage(OriginalQuery)>>, 1)
    /\ next_id = 2
    /\ retry_count = 0
    /\ documents = <<>>
    /\ rpc = IF wf = "manual" THEN "retrieve" ELSE "generate_query_or_respond"
    /\ n_retrieve = 0
    /\ n_rewrite = 0
    /\ n_generate = 0
    /\ last_query = -1
    /\ terminals = <<>>
    /\ rewrite_outcome = "none"

\* ---------------------------------------------------- manual workflow nodes
\* retrieve_documents: search with messages[-1].content, replace documents
ManualRetrieve ==
    /\ UNCHANGED <<chatVars, cls, pay, shop>>
    /\ UNCHANGED rewrite_outcome
    /\ wf = "manual"
    /\ rpc = "retrieve"
    /\ \E docs \in DocLists :
         /\ documents' = docs
         /\ last_query' = Last(messages).text
         /\ n_retrieve' = n_retrieve + 1
         /\ rpc' = "grade"
    /\ UNCHANGED <<wf, messages, retry_count, next_id, threshold,
                   use_llm_rewriting, n_rewrite, n_generate, terminals>>

\* search_documents raises LLMError: the run is aborted by the exception
ManualRetrieveFails ==
    /\ UNCHANGED <<chatVars, cls, pay, shop>>
    /\ UNCHANGED rewrite_outcome
    /\ wf = "manual"
    /\ rpc = "retrieve"
    /\ last_query' = Last(messages).text
    /\ n_retrieve' = n_retrieve + 1
    /\ rpc' = "failed"
    /\ UNCHANGED <<wf, messages, retry_count, documents, next_id, threshold,
                   use_llm_rewriting, n_rewrite, n_generate, terminals>>

ManualGradeDocuments ==
    /\ UNCHANGED <<chatVars, cls, pay, shop>>
    /\ UNCHANGED rewrite_outcome
    /\ wf = "manual"
    /\ rpc = "grade"
    /\ rpc' = EdgeTarget(ManualGrade(documents, retry_count, threshold))
    /\ UNCHANGED <<wf, messages, retry_count, documents, next_id, threshold,
                   use_llm_rewriting, n_retrieve, n_rewrite, n_generate,
                   last_query, terminals>>

ManualRewriteQuestion ==
    /\ UNCHANGED <<chatVars, cls, pay, shop>>
    /\ wf = "manual"
    /\ rpc = "rewrite_question"
    /\ \E rewritten \in RewriteResults(Last(messages).text, use_llm_rewriting),
          outcome \in RewriteOutcomes(use_llm_rewriting) :
         LET new_messages == ButLast(messages) \o <<HumanMessage(rewritten)>>
         IN /\ outcome = "failed" => rewritten = Last(messages).text
            /\ rewrite_outcome' = outcome
            /\ messages' = AddMessages(messages, new_messages, next_id)
            /\ next_id' = next_id + FreshCount(new_messages)
    /\ retry_count' = RetryIncrement(retry_count)
    /\ n_rewrite' = n_rewrite + 1
    /\ rpc' = "retrieve"
    /\ UNCHANGED <<wf, documents, threshold, use_llm_rewriting, n_retrieve,
                   n_generate, last_query, terminals>>

\* a message chosen by the retry count before the documents
NoAnswerKindRetryFirst(docs, rc) ==
    IF rc >= MAX_RETRIES THEN "retries_exhausted"
    ELSE IF docs = <<>> THEN "no_documents"
    ELSE "generic"

NoAnswerKind(docs, rc) ==
    IF docs = <<>> THEN "no_documents"
    ELSE IF rc >= MAX_RETRIES THEN "retries_exhausted"
    ELSE "generic"

ManualNoAnswerAvailable ==
    /\ UNCHANGED <<chatVars, cls, pay, shop>>
    /\ UNCHANGED rewrite_outcome
    /\ wf = "manual"
    /\ rpc = "no_answer_available"
    /\ LET reply == <<AIMessage(NoAnswerKind(documents, retry_count), Last(messages).text)>>
       IN /\ messages' = AddMessages(messages, reply, next_id)
          /\ next_id' = next_id + 1
    /\ terminals' = Append(terminals, "no_answer")
    /\ rpc' = "end"
    /\ UNCHANGED <<wf, retry_count, documents, threshold, use_llm_rewriting,
                   n_retrieve, n_rewrite, n_generate, last_query>>

ManualGenerateAnswer ==
    /\ UNCHANGED <<chatVars, cls, pay, shop>>
    /\ UNCHANGED rewrite_outcome
    /\ wf = "manual"
    /\ rpc = "generate_answer"
    /\ LET reply == <<AIMessage("answer", Last(messages).text)>>
       IN /\ messages' = AddMessages(messages, reply, next_id)
          /\ next_id' = next_id + 1
    /\ n_generate' = n_generate + 1
    /\ terminals' = Append(terminals, "generate_answer")
    /\ rpc' = "end"
    /\ UNCHANGED <<wf, retry_count, documents, threshold, use_llm_rewriting,
                   n_retrieve, n_rewrite, last_query>>

\* llm.ainvoke raises inside generate_answer
ManualGenerateFails ==
    /\ UNCHANGED <<chatVars, cls, pay, shop>>
    /\ UNCHANGED rewrite_outcome
    /\ wf = "manual"
    /\ rpc = "generate_answer"
    /\ n_generate' = n_generate + 1
    /\ terminals' = Append(terminals, "generate_answer")
    /\ rpc' = "failed"
    /\ UNCHANGED <<wf, messages, retry_count, documents, next_id, threshold,
                   use_llm_rewriting, n_retrieve, n_rewrite, last_query>>

\* --------------------------------------------------- agentic workflow nodes
\* generate_query_or_respond followed by tools_condition: the model either
\* asks for the retriever tool or answers directly (the run ends).
AgenticGenerateQueryOrRespond ==
    /\ UNCHANGED <<chatVars, cls, pay, shop>>
    /\ UNCHANGED rewrite_outcome
    /\ wf = "agentic"
    /\ rpc = "generate_query_or_respond"
    /\ \E tool_call \in BOOLEAN :
         LET reply == <<AIMessage(IF tool_call THEN "tool_call" ELSE "direct",
                                  Last(HumanMessages(messages)).text)>>
         IN /\ messages' = AddMessages(messages, reply, next_id)
            /\ next_id' = next_id + 1
            /\ rpc' = IF tool_call THEN "retrieve" ELSE "end"
    /\ UNCHANGED <<wf, retry_count, documents, threshold, use_llm_rewriting,
                   n_retrieve, n_rewrite, n_generate, last_query, terminals>>

\* llm_with_tools.ainvoke raises
AgenticGenerateQueryFails ==
    /\ UNCHANGED <<chatVars, cls, pay, shop>>
    /\ UNCHANGED rewrite_outcome
    /\ wf = "agentic"
    /\ rpc = "generate_query_or_respond"
    /\ rpc' = "failed"
    /\ UNCHANGED <<wf, messages, retry_count, documents, next_id, threshold,
                   use_llm_rewriting, n_retrieve, n_rewrite, n_generate,
                   last_query, terminals>>

\* ToolNode running the retriever tool: the tool message holds the formatted
\* documents, the "No relevant documents found" text or the "Error" text.
AgenticRetrieve ==
    /\ UNCHANGED <<chatVars, cls, pay, shop>>
    /\ UNCHANGED rewrite_outcome
    /\ wf = "agentic"
    /\ rpc = "retrieve"
    /\ \E outcome \in {"ok", "error"}, docs \in ToolDocLists :
         LET kind == IF outcome = "error" THEN "error"
                     ELSE IF docs = <<>> THEN "none" ELSE "docs"
             reply == <<ToolMessage(kind, IF kind = "docs" THEN docs ELSE <<>>)>>
         IN /\ outcome = "error" => docs = <<>>
            /\ messages' = AddMessages(messages, reply, next_id)
            /\ next_id' = next_id + 1
    /\ n_retrieve' = n_retrieve + 1
    /\ rpc' = "grade"
    /\ UNCHANGED <<wf, retry_count, documents, threshold, use_llm_rewriting,
                   n_rewrite, n_generate, last_query, terminals>>

AgenticGradeDocuments ==
    /\ UNCHANGED <<chatVars, cls, pay, shop>>
    /\ UNCHANGED rewrite_outcome
    /\ wf = "agentic"
    /\ rpc = "grade"
    /\ rpc' = EdgeTarget(AgenticGrade(messages, retry_count))
    /\ UNCHANGED <<wf, messages, retry_count, documents, next_id, threshold,
                   use_llm_rewriting, n_retrieve, n_rewrite, n_generate,
                   last_query, terminals>>

AgenticRewriteQuestion ==
    /\ UNCHANGED <<chatVars, cls, pay, shop>>
    /\ wf = "agentic"
    /\ rpc = "rewrite_question"
    /\ IF HumanMessages(messages) = <<>>
       THEN UNCHANGED <<messages, next_id, retry_count, n_rewrite, rewrite_outcome>>
       ELSE /\ \E rewritten \in RewriteResults(Last(HumanMessages(messages)).text,
                                               use_llm_rewriting),
                   outcome \in RewriteOutcomes(use_llm_rewriting) :
                 LET new_messages == ButLast(messages) \o <<HumanMessage(rewritten)>>
                 IN /\ outcome = "failed" =>
                          rewritten = Last(HumanMessages(messages)).text
                    /\ rewrite_outcome' = outcome
                    /\ messages' = AddMessages(messages, new_messages, next_id)
                    /\ next_id' = next_id + FreshCount(new_messages)
            /\ retry_count' = RetryIncrement(retry_count)
            /\ n_rewrite' = n_rewrite + 1
    /\ rpc' = "generate_query_or_respond"
    /\ UNCHANGED <<wf, documents, threshold, use_llm_rewriting, n_retrieve,
                   n_generate, last_query, terminals>>

AgenticNoAnswerKind(ms, rc) ==
    LET tm == ToolMessages(ms)
    IN IF tm = <<>> \/ Last(tm).kind = "none" THEN "no_documents"
       ELSE IF rc >= MAX_RETRIES THEN "retries_exhausted"
       ELSE "generic"

AgenticNoAnswerAvailable ==
    /\ UNCHANGED <<chatVars, cls, pay, shop>>
    /\ UNCHANGED rewrite_outcome
    /\ wf = "agentic"
    /\ rpc = "no_answer_available"
    /\ LET hm == HumanMessages(messages)
           reply == <<AIMessage(AgenticNoAnswerKind(messages, retry_count),
                                IF hm = <<>> THEN -1 ELSE Last(hm).text)>>
       IN /\ messages' = AddMessages(messages, reply, next_id)
          /\ next_id' = next_id + 1
    /\ terminals' = Append(terminals, "no_answer")
    /\ rpc' = "end"
    /\ UNCHANGED <<wf, retry_count, documents, threshold, use_llm_rewriting,
                   n_retrieve, n_rewrite, n_generate, last_query>>

\* generate_answer: one model call over the whole history; it either returns
\* (the reply is appended) or raises (the run is aborted).
AgenticGenerateAnswer ==
    /\ UNCHANGED <<chatVars, cls, pay, shop>>
    /\ UNCHANGED rewrite_outcome
    /\ wf = "agentic"
    /\ rpc = "generate_answer"
    /\ n_generate' = n_generate + 1
    /\ terminals' = Append(terminals, "generate_answer")
    /\ \E returns \in BOOLEAN :
         IF returns
         THEN LET reply == <<AIMessage("answer", Last(HumanMessages(messages)).text)>>
              IN /\ messages' = AddMessages(messages, reply, next_id)
                 /\ next_id' = next_id + 1
                 /\ rpc' = "end"
         ELSE /\ rpc' = "failed"
              /\ UNCHANGED <<messages, next_id>>
    /\ UNCHANGED <<wf, retry_count, documents, threshold, use_llm_rewriting,
                   n_retrieve, n_rewrite, last_query>>

RagNext ==
    \/ ManualRetrieve
    \/ ManualRetrieveFails
    \/ ManualGradeDocuments
    \/ ManualRewriteQuestion
    \/ ManualNoAnswerAvailable
    \/ ManualGenerateAnswer
    \/ ManualGenerateFails
    \/ AgenticGenerateQueryOrRespond
    \/ AgenticGenerateQueryFails
    \/ AgenticRetrieve
    \/ AgenticGradeDocuments
    \/ AgenticRewriteQuestion
    \/ AgenticNoAnswerAvailable
    \/ AgenticGenerateAnswer

RagSpecInit == RagInit /\ ChatIdle /\ ClsIdle /\ PayIdle /\ ShopIdle

RagSpec == RagSpecInit /\ [][RagNext]_vars

\* the model service is configured, so every run gets past classify_intent_node
StoreInit == ChatInit /\ llm_configured = TRUE /\ RagIdle /\ ClsIdle /\ PayIdle /\ ShopIdle

StoreSpec == StoreInit /\ [][StoreNext]_vars

\* the run slot used when one request is served at a time
SweepSlots == {1}

\* the session store holding entries of several sessions: requests served one
\* at a time for the sessions followed over time, the passing of time, and
\* clear_context and reset_context called for any session
SweepNext ==
    \/ \E r \in SweepSlots : StartRun(r) /\ ~req'[r].empty /\ req'[r].sid \in TimedSessions
    \/ \E r \in SweepSlots : ClassifyIntentNode(r) /\ req'[r].pc \in SessionNodes
    \/ \E r \in SweepSlots : SessionNodeStart(r)
    \/ \E r \in SweepSlots : ProductSearchFinish(r)
    \/ \E r \in SweepSlots : OrderFinish(r, {}, 0)
    \/ \E r \in SweepSlots : PaymentFinish(r, 0, 0)
    \/ Tick
    \/ \E s \in Sessions : ClearContext(s)
    \/ \E s \in Sessions : ResetContext(s)

SweepSpec == StoreInit /\ [][SweepNext]_vars

\* the session store shared by requests in flight at the same time, while
\* reset_context keeps entries of other sessions in it
SharedNext ==
    \/ \E r \in Slots : StartRun(r) /\ ~req'[r].empty /\ req'[r].sid \in TimedSessions
    \/ \E r \in Slots : ClassifyIntentNode(r) /\ req'[r].pc \in SessionNodes
    \/ \E r \in Slots : SessionNodeStart(r)
    \/ \E r \in Slots : ProductSearchFinish(r)
    \/ \E r \in Slots : OrderFinish(r, {}, 0)
    \/ \E r \in Slots : PaymentFinish(r, 0, 0)
    \/ Tick
    \/ \E s \in TimedSessions : ClearContext(s)
    \/ \E s \in Sessions : ResetContext(s)

SharedSpec == StoreInit /\ [][SharedNext]_vars

\* the longest path through the manual graph's edges from node p to END
\* when rc rewrites have been made: retrieve, grade and rewrite_question for
\* each rewrite still allowed, then retrieve, grade and a terminal node
StepsLeft(p, rc) ==
    3 * (MAX_RETRIES - rc) +
    (CASE p = "retrieve" -> 3
       [] p = "grade" -> 2
       [] p \in {"rewrite_question", "generate_answer", "no_answer_available"} -> 1
       [] OTHER -> 0)

\* the manual workflow alone (api/routes/rag.py picks it for every provider
\* other than openai and gemini)
ManualNext ==
    \/ ManualRetrieve
    \/ ManualRetrieveFails
    \/ ManualGradeDocuments
    \/ ManualRewriteQuestion
    \/ ManualNoAnswerAvailable
    \/ ManualGenerateAnswer
    \/ ManualGenerateFails

\* a started run keeps being executed by the event loop until it ends
ManualInit == RagInit /\ wf = "manual" /\ ChatIdle /\ ClsIdle /\ PayIdle /\ ShopIdle

RagLiveSpec == ManualInit /\ [][ManualNext]_vars /\ WF_vars(ManualNext)

\* ============================================== properties: Retrieval Workflow
\* C1: in both workflows a rewrite_question step adds exactly 1 to
\* retry_count and no other step changes it; retry_count never exceeds
\* MAX_RETRIES, because grading at retry_count >= MAX_RETRIES goes to
\* no_answer, so there is no fourth rewrite.
C1_RetryCount ==
    /\ [](retry_count <= MAX_RETRIES /\ n_rewrite <= MAX_RETRIES)
    /\ [][/\ rpc = "rewrite_question" => retry_count' = retry_count + 1
          /\ rpc # "rewrite_question" => retry_count' = retry_count
          /\ rpc = "grade" /\ retry_count >= MAX_RETRIES
                => rpc' = "no_answer_available"]_vars

C1_Witness ==
    /\ retry_count = MAX_RETRIES
    /\ n_rewrite = MAX_RETRIES
    /\ documents # <<>>
    /\ rpc = "no_answer_available"

C3_EmptyNoAnswer ==
    /\ [][rpc = "grade" /\ wf = "manual" /\ documents = <<>>
             => rpc' = "no_answer_available"]_vars
    /\ [][rpc = "grade" /\ wf = "agentic" /\ Last(ToolMessages(messages)).kind = "none"
             => rpc' = "no_answer_available"]_vars
    /\ [](wf = "manual" /\ rpc \in {"rewrite_question", "generate_answer"}
             => documents # <<>>)

C3_Witness ==
    /\ wf = "manual"
    /\ documents = <<>>
    /\ retry_count \in 1..MAX_RETRIES
    /\ n_retrieve = retry_count + 1
    /\ rpc = "no_answer_available"

\* C4: a run of the manual workflow makes at most MAX_RETRIES + 1 searches
\* and at most MAX_RETRIES rewrite calls; ended after generate_answer it has
\* made exactly one generation call, ended after no_answer none.
C4_CallBounds ==
    wf = "manual" =>
        /\ n_retrieve <= MAX_RETRIES + 1
        /\ n_rewrite <= MAX_RETRIES
        /\ rpc = "end" /\ terminals = <<"generate_answer">> => n_generate = 1
        /\ rpc = "end" /\ terminals = <<"no_answer">> => n_generate = 0

C4_Witness ==
    /\ wf = "manual"
    /\ n_retrieve = MAX_RETRIES + 1
    /\ n_rewrite = MAX_RETRIES
    /\ n_generate = 0
    /\ rpc = "end"

\* C5: for non-empty documents and retry_count < MAX_RETRIES the grade
\* decision of the manual workflow is generate_answer exactly when the mean
\* of the scores is at least the threshold (sum >= threshold * count), and
\* rewrite_question otherwise.
C5_MeanGrading ==
    [][rpc = "grade" /\ wf = "manual" /\ documents # <<>> /\ retry_count < MAX_RETRIES
          => IF SumSeq(Scores(documents)) >= threshold * Len(documents)
             THEN rpc' = "generate_answer"
             ELSE rpc' = "rewrite_question"]_vars

\* C19: grading non-empty documents at retry_count >= MAX_RETRIES goes to
\* no_answer whatever the scores are (manual workflow: documents; agentic
\* workflow: a tool message with documents), so the documents of the search
\* that follows the third rewrite are never used to generate an answer.
C19_ExhaustedNoAnswer ==
    /\ [][rpc = "grade" /\ wf = "manual" /\ documents # <<>>
             /\ retry_count >= MAX_RETRIES
             => rpc' = "no_answer_available"]_vars
    /\ [][rpc = "grade" /\ wf = "agentic" /\ Last(ToolMessages(messages)).kind = "docs"
             /\ retry_count >= MAX_RETRIES
             => rpc' = "no_answer_available"]_vars
    /\ [](rpc = "generate_answer" => retry_count < MAX_RETRIES)
    /\ [](wf = "manual" /\ n_retrieve = MAX_RETRIES + 1 => n_generate = 0)

C19_Witness ==
    /\ wf = "manual"
    /\ retry_count = MAX_RETRIES
    /\ n_retrieve = MAX_RETRIES + 1
    /\ documents # <<>>
    /\ GradeDocumentsByScore(documents, threshold)
    /\ rpc = "no_answer_available"

\* C20: a rewrite_question step of the manual workflow puts the rewritten
\* query in the place of the prior question: the history keeps its length,
\* its earlier messages are untouched, its last message is the rewritten
\* query, and the next search uses that query.
C20_RewriteReplaces ==
    /\ [][wf = "manual" /\ rpc = "rewrite_question"
             => /\ Len(messages') = Len(messages)
                /\ ButLast(messages') = ButLast(messages)
                /\ Last(messages').role = "human"]_vars
    /\ [][wf = "manual" /\ rpc = "retrieve"
             => last_query' = Last(messages).text]_vars

\* ==================================================== properties: Dispatch Graph
\* C6: no run of the Dispatch Graph is aborted by an exception raised in a
\* handler node; whatever raises there, the run ends with a response.
C6_HandlersNeverPropagate ==
    ~(done.via = "graph" /\ done.outcome = "raised" /\ Len(done.trace) = 2)

\* C7: a finished run of the Dispatch Graph has executed classify_intent and
\* then the one handler node of its intent, nothing else; a run in flight has
\* executed at most classify_intent before its handler node.
C7_TwoNodes ==
    /\ done.via = "graph" =>
           done.trace = <<"classify_intent",
                          IF done.intent \in {"payment", "faq", "escalation",
                                              "product_search", "order"}
                          THEN done.intent ELSE "conversation">>
    /\ \A r \in Slots :
           req[r].via = "graph" /\ req[r].trace # <<>> =>
               /\ Len(req[r].trace) <= 2
               /\ req[r].trace[1] = "classify_intent"

\* C8: every execution of payment_node, product_search_node and order_node
\* that returns has called get_context, then run the handler, then called
\* save_context, also when the handler raised; the other handler nodes call
\* neither.
C8_LoadSaveBracket ==
    done.outcome = "end" =>
        IF Last(done.trace) \in SessionNodes
        THEN done.events = <<"get", "handler", "save">>
        ELSE done.events = <<"handler">>

\* ============================================ properties: Session Context Store
\* C9: a get_context that follows a clear_context of the same session, with
\* no save_context of that session in between, returns the default fields.
C9_GetAfterClear == got.after_clear # "no" => got.fields = DefaultFields

C9_Witness == got.after_clear = "used" /\ got.fields = DefaultFields

\* C10: as stated, two get_context calls in a row on a session return the
\* same fields however much time passes between them.
C10_GetTwice == got.in_row => got.fields = got.prev_fields

\* C10: two get_context calls in a row on a session return the same fields
\* when the second call comes no later than TTL_MINUTES after the entry's
\* last_updated.
C10_GetTwiceWithinTTL ==
    got.in_row /\ got.age <= TTL_MINUTES => got.fields = got.prev_fields

C10_Witness ==
    /\ got.in_row
    /\ got.age = TTL_MINUTES
    /\ got.fields # DefaultFields
    /\ got.fields = got.prev_fields

\* C11: right after any get_context no entry of any session is older than
\* TTL_MINUTES; a get_context removes no entry aged TTL_MINUTES or less; and
\* a step without a get_context (a save_context, a clear_context, time
\* passing) removes no entry other than the one a clear_context names, so
\* an expired entry stays in the store until a get_context runs.
C11_LazyEviction ==
    /\ [](got.sid # 0 =>
             \A s \in Sessions :
                 storage[s] # 0 => now - heap[storage[s]].last_updated <= TTL_MINUTES)
    /\ [][got'.sid # 0 =>
             \A s \in Sessions :
                 storage[s] # 0 /\ now - heap[storage[s]].last_updated <= TTL_MINUTES
                     => storage'[s] # 0 /\ s \notin got'.evicted]_vars
    /\ [][got'.sid = 0 =>
             \A s \in Sessions :
                 storage[s] # 0 /\ ~(last_op'.op = "clear" /\ last_op'.sid = s)
                     => storage'[s] # 0]_vars

C11_Witness ==
    /\ got.sid # 0
    /\ \E s \in got.evicted : s # got.sid
    /\ ~got.in_row
    /\ storage[got.sid] # 0
    /\ now - heap[storage[got.sid]].last_updated = TTL_MINUTES

\* C12: a step that calls save_context leaves the store mapping the
\* context's session id to the context it was given (its fields as the
\* caller left them), stamped with the time of the save, and leaves the
\* entries of the other sessions as they were (apart from those the
\* get_context of a reset_context evicted); so of two requests saving
\* different contexts for one session the one that saves last decides
\* what the store holds.
C12_SaveUpserts ==
    [][(\/ done'.outcome = "end" /\ Last(done'.events) = "save"
        \/ got'.sid # 0 /\ last_op'.op = "save")
       => LET s == last_op'.sid
          IN /\ storage'[s] # 0
             /\ heap'[storage'[s]].session_id = s
             /\ Fields(heap'[storage'[s]]) = last_op'.fields
             /\ heap'[storage'[s]].last_updated = now'
             /\ \A t \in Sessions \ {s} :
                    IF storage[t] = 0 \/ t \in got'.evicted
                    THEN storage'[t] = 0
                    ELSE /\ storage'[t] # 0
                         /\ heap'[storage'[t]] = heap[storage[t]]]_vars

\* a request saved its context over the entry of a session for which another
\* request in flight holds a different context object, while another session
\* has an entry of its own
C12_Witness ==
    /\ last_op.op = "save"
    /\ last_op.fields # DefaultFields
    /\ done.outcome = "end"
    /\ \E r \in Slots :
           /\ req[r].sid = last_op.sid
           /\ req[r].ctx # 0
           /\ req[r].ctx # storage[last_op.sid]
    /\ \E t \in Sessions \ {last_op.sid} : storage[t] # 0

\* ================================================ properties: Intent Classifier
\* C13: as stated, a last message that matches a keyword rule is classified
\* with that rule's intent, confidence 0.95 and no model call, whichever
\* other rules it matches as well.
C13_KeywordRule ==
    cls.called /\ cls.messages # <<>> =>
        LET lowered == Lower(Last(cls.messages))
            by_rule(intent) == cls.result = [raised |-> "none", intent |-> intent,
                                             confidence |-> 95, calls |-> 0]
        IN /\ SearchRule(lowered) => by_rule("product_search")
           /\ OrderRule(lowered) => by_rule("order")
           /\ PaymentRule(lowered) => by_rule("payment")

\* C13: a last message that matches a keyword rule is classified with the
\* intent of the first rule it matches, the rules being tried in the order
\* product_search, order, payment, with confidence 0.95 and no model call.
C13_FirstKeywordRule ==
    cls.called /\ cls.messages # <<>> =>
        LET lowered == Lower(Last(cls.messages))
            first == IF SearchRule(lowered) THEN "product_search"
                     ELSE IF OrderRule(lowered) THEN "order"
                     ELSE IF PaymentRule(lowered) THEN "payment"
                     ELSE "none"
        IN first # "none" =>
               cls.result = [raised |-> "none", intent |-> first,
                             confidence |-> 95, calls |-> 0]

C13_Witness ==
    /\ cls.called
    /\ Len(cls.messages) = 2
    /\ Last(cls.messages) = <<"hello", "Pay now">>
    /\ cls.result = [raised |-> "none", intent |-> "payment", confidence |-> 95,
                     calls |-> 0]

\* C14: classify raises only for an empty message list; for a message that
\* matches no keyword rule, a failed model call and every malformed answer
\* (no JSON, JSON that is no object, an intent outside the enum, a
\* confidence outside [0, 1] or missing) give general with confidence 0.5.
C14_NeverRaises ==
    cls.called =>
        /\ cls.result.raised # "none" => cls.messages = <<>>
        /\ cls.messages = <<>> => cls.result.raised = "AgentError"
        /\ LET lowered == Lower(Last(cls.messages))
               body == cls.output.body
           IN /\ cls.messages # <<>>
              /\ ~SearchRule(lowered) /\ ~OrderRule(lowered) /\ ~PaymentRule(lowered)
              /\ \/ body.kind # "object"
                 \/ LowerIntent(body.intent) \notin IntentTypes
                 \/ body.confidence \notin 0..100
              => /\ cls.result.raised = "none"
                 /\ cls.result.intent = "general"
                 /\ cls.result.confidence = 50

\* ------------------------------------------------ order, payment and phase
\* the step in which slot r leaves a session node through its normal end
NodeEnds(r, node) ==
    /\ req[r].pc = node \o "_await"
    /\ req'[r].pc = "idle"
    /\ done'.outcome = "end"
    /\ ~req[r].empty

\* C15 (as stated): when the last-viewed list is not empty and the message
\* contains an ordinal reference whose position exists in the list, the
\* order handler selects the item at that position without a model call.
C15_OrdinalSelects ==
    [][\A r \in Slots : NodeEnds(r, "order") =>
         LET products == heap[req[r].ctx].last_viewed_products
             d == done'.detail
             Position(ref) == IF ref = "first" THEN 1
                              ELSE IF ref = "second" THEN 2 ELSE 3
         IN \A ref \in d.refs \cap {"first", "second", "third"} :
              Position(ref) <= Len(products) =>
                 d.selected = products[Position(ref)] /\ d.model_calls = 0]_vars

\* the ordinal that decides: the lowest of those the message contains
LowestOrdinal(refs) ==
    IF "first" \in refs THEN 1
    ELSE IF "second" \in refs THEN 2
    ELSE IF "third" \in refs THEN 3
    ELSE 0

\* C15: when the last-viewed list is not empty and the message contains an
\* ordinal reference, the lowest ordinal it contains decides: if that
\* position exists in the list the order handler selects the item there
\* without a model call, otherwise the rules select nothing and the handler
\* makes one model call; and when the order is created the order node stores
\* the new order's id as pending_order_id and the phase ordered.
C15_LowestOrdinalSelects ==
    [][\A r \in Slots : NodeEnds(r, "order") =>
         LET products == heap[req[r].ctx].last_viewed_products
             d == done'.detail
             k == LowestOrdinal(d.refs)
             after == heap'[storage'[req[r].sid]]
         IN /\ (products # <<>> /\ k # 0) =>
                 IF k <= Len(products)
                 THEN d.selected = products[k] /\ d.model_calls = 0
                 ELSE d.selected = 0 /\ d.model_calls = 1
            /\ d.order_id # 0 =>
                 /\ d.order_id = orders'
                 /\ orders' = orders + 1
                 /\ storage'[req[r].sid] # 0
                 /\ after.pending_order_id = d.order_id
                 /\ after.conversation_state = "ordered"]_vars

\* an order was created for the second listed product, selected by rule
C15_Witness ==
    /\ done.outcome = "end"
    /\ done.detail.refs = {"second"}
    /\ done.detail.selected = 2
    /\ done.detail.model_calls = 0
    /\ done.detail.order_id # 0
    /\ storage[done.sid] # 0
    /\ heap[storage[done.sid]].pending_order_id = done.detail.order_id
    /\ heap[storage[done.sid]].conversation_state = "ordered"

\* C16: a payment message that names no order, handled for a session whose
\* pending_order_id is set, pays the pending order; when the payment
\* succeeds pending_order_id is cleared and the phase is completed, and when
\* it does not pending_order_id is unchanged.
C16_PaymentClearsPending ==
    [][\A r \in Slots :
         (/\ NodeEnds(r, "payment")
          /\ heap[req[r].ctx].pending_order_id # 0
          /\ ~done'.detail.explicit) =>
         LET before == heap[req[r].ctx]
             d == done'.detail
             paid == d.reply = "request_created"
             after == heap'[storage'[req[r].sid]]
         IN /\ d.order_id = before.pending_order_id
            /\ d.status = "pending" => paid
            /\ paid => /\ after.pending_order_id = 0
                       /\ after.conversation_state = "completed"
            /\ ~paid => after.pending_order_id = before.pending_order_id]_vars

\* the place of a phase in the order lifecycle
PhaseRank(phase) ==
    IF phase = "browsing" THEN 1
    ELSE IF phase = "selected" THEN 2
    ELSE IF phase = "ordered" THEN 3
    ELSE IF phase = "paying" THEN 4
    ELSE 5

\* C17: no search, order or payment handler moves the stored phase of a
\* session backwards along browsing, selected, ordered, paying, completed.
C17_PhaseMonotonic ==
    [][\A r \in Slots, node \in SessionNodes :
         (NodeEnds(r, node) /\ storage[req[r].sid] # 0) =>
            PhaseRank(heap'[storage'[req[r].sid]].conversation_state)
               >= PhaseRank(heap[storage[req[r].sid]].conversation_state)]_vars

C21_GenerateUsesOriginal ==
    wf = "manual" =>
        \A i \in 1..Len(messages) :
            messages[i].kind = "answer" => messages[i].text = OriginalQuery

\* a rewrite left the query as it was: the model was not asked or failed
QueryKept == rewrite_outcome \in {"skipped", "failed"}

\* C22: a rewrite_question step that does not get a new query from the model
\* (rewriting disabled, or the model call failed) still adds 1 to
\* retry_count and leaves the query of the last human message as it was; in
\* the manual workflow the retrieval that follows is issued with the query
\* of the retrieval before, and a run makes at most MAX_RETRIES + 1
\* retrievals.
C22_RewriteDisabledSameQuery ==
    /\ [](wf = "manual" => n_retrieve <= MAX_RETRIES + 1)
    /\ [][(n_rewrite' = n_rewrite + 1 /\ QueryKept') =>
             /\ retry_count' = retry_count + 1
             /\ Last(HumanMessages(messages')).text = Last(HumanMessages(messages)).text
             /\ ~use_llm_rewriting => rewrite_outcome' = "skipped"]_vars
    /\ [][(wf = "manual" /\ n_retrieve' = n_retrieve + 1 /\ n_retrieve >= 1
              /\ QueryKept) => last_query' = last_query]_vars

\* with rewriting disabled a run ended after four retrievals of one query
C22_Witness ==
    /\ wf = "manual"
    /\ ~use_llm_rewriting
    /\ rewrite_outcome = "skipped"
    /\ retry_count = MAX_RETRIES
    /\ n_retrieve = MAX_RETRIES + 1
    /\ last_query = OriginalQuery
    /\ rpc = "end"

\* the documents the grade decision is about to look at
GradedDocuments ==
    IF wf = "manual" THEN documents
    ELSE IF ToolMessages(messages) = <<>> THEN <<>>
    ELSE Last(ToolMessages(messages)).docs

\* C23: non-empty documents none of which carries a score are graded
\* relevant: with retry_count < MAX_RETRIES the run goes on to
\* generate_answer, in both workflows.
C23_UnscoredRelevant ==
    [][(/\ rpc = "grade"
        /\ retry_count < MAX_RETRIES
        /\ GradedDocuments # <<>>
        /\ \A i \in 1..Len(GradedDocuments) : GradedDocuments[i] = NoScore)
          => rpc' = "generate_answer"]_vars

\* C29: in the manual workflow no_answer_available runs only with empty
\* documents or with retry_count >= MAX_RETRIES, so no reply names the
\* generic cause; its reply names "no documents" exactly when the documents
\* are empty, whatever retry_count is, and "retries exhausted" exactly when
\* they are not empty and retry_count = MAX_RETRIES.
C29_NoAnswerCause ==
    /\ [](wf = "manual" =>
            \A i \in 1..Len(messages) : messages[i].kind # "generic")
    /\ [][(wf = "manual" /\ rpc = "no_answer_available" /\ rpc' = "end") =>
            LET kind == Last(messages').kind
            IN /\ documents = <<>> \/ retry_count >= MAX_RETRIES
               /\ kind = "no_documents" <=> documents = <<>>
               /\ kind = "retries_exhausted" <=>
                     (documents # <<>> /\ retry_count = MAX_RETRIES)]_vars

\* the retrieval after the third rewrite was empty and the reply says that
\* no documents were found
C29_Witness ==
    /\ wf = "manual"
    /\ rpc = "end"
    /\ retry_count = MAX_RETRIES
    /\ documents = <<>>
    /\ Last(messages).kind = "no_documents"


\* ------------------------------------------------ Intent Classifier: rule order
\* C24: the keyword rules are tried in the order product search, order with
\* a selection reference, order by product, payment, and the first that
\* matches decides: a message that matches an order rule and the payment rule
\* (and not the search rule) is classified as order, and a message with a
\* search trigger but no product noun is decided by the later rules, or by
\* the model when none of them matches.
C24_RuleOrder ==
    cls.called /\ cls.messages # <<>> =>
        LET lowered == Lower(Last(cls.messages))
            trigger == ContainsAny(lowered, SearchKeywords)
            noun == Contains(lowered, "product") \/ ContainsAny(lowered, ProductNouns)
            selection == /\ ContainsAny(lowered, OrderKeywords)
                         /\ ContainsAny(lowered, SelectionReferences)
            by_product == ContainsAny(lowered, OrderProductKeywords)
            payment == ContainsAny(lowered, PaymentKeywords)
            by_rule(intent) == cls.result = [raised |-> "none", intent |-> intent,
                                             confidence |-> 95, calls |-> 0]
            later == IF selection \/ by_product THEN by_rule("order")
                     ELSE IF payment THEN by_rule("payment")
                     ELSE cls.result.calls = 1
        IN /\ (trigger /\ noun) => by_rule("product_search")
           /\ ~(trigger /\ noun) => later
           /\ ((selection \/ by_product) /\ payment /\ ~(trigger /\ noun))
                 => cls.result.intent = "order"

\* a message with an order phrase and "pay now" was classified as order
C24_Witness ==
    /\ cls.called
    /\ Len(cls.messages) = 1
    /\ Last(cls.messages) = <<"i want that", "pay now">>
    /\ cls.result = [raised |-> "none", intent |-> "order", confidence |-> 95,
                     calls |-> 0]


\* ------------------------------------------------ properties: Payment Workflow
\* C25: the process node runs only on a state without validation errors; a
\* run whose amount is a number <= 0 or whose currency is not supported ends
\* after validate alone with status failed, a non-empty list of validation
\* errors and no call of the payment processor; a run with a positive
\* amount and a supported currency goes validate, process, end.
C25_ProcessAfterValidation ==
    LET bad_amount == pay.amount.kind = "number" /\ pay.amount.value <= 0
        good_amount == pay.amount.kind = "number" /\ pay.amount.value > 0
        bad_currency == pay.currency \notin ValidCurrencies
    IN /\ pay.pc = "process" => pay.validation_errors = <<>>
       /\ pay.processor_calls > 0 => pay.trace = <<"validate", "process">>
       /\ (pay.pc = "end" /\ (bad_amount \/ bad_currency)) =>
             /\ pay.trace = <<"validate">>
             /\ pay.status = "failed"
             /\ pay.validation_errors # <<>>
             /\ pay.processor_calls = 0
       /\ (pay.pc = "end" /\ good_amount /\ ~bad_currency) =>
             pay.trace = <<"validate", "process">>

\* a payment of amount 0 ended after validate with an error
C25_Witness ==
    /\ pay.pc = "end"
    /\ pay.amount = [kind |-> "number", value |-> 0]
    /\ pay.currency = "USD"
    /\ pay.trace = <<"validate">>
    /\ pay.status = "failed"
    /\ pay.validation_errors = <<"Amount must be greater than 0">>

\* ----------------------------------------------------- properties: the stock
\* C30: whatever the interleaving of the orders being created, the stock is
\* never negative and the quantity of the orders created never exceeds the
\* stock the product began with.
C30_StockNeverNegative ==
    /\ shop.stock >= 0
    /\ shop.ordered <= shop.initial

\* --------------------------------------------- properties: the order node
\* C28: when the order handler creates no order (no product resolved,
\* product unavailable, or an exception), the order node leaves the
\* pending_order_id and the phase of the session's context as they were;
\* they change, to the new order id and ordered, only in a run in which an
\* order was created, and a created order overwrites the pending_order_id
\* already set.
C28_OrderNodeFrame ==
    [][\A r \in Slots :
         (req[r].pc = "order_await" /\ req'[r].pc = "idle") =>
            LET before == heap[req[r].ctx]
                d == done'.detail
                saved == Last(done'.events) = "save"
            IN /\ (saved /\ d.reply # "created") =>
                    /\ heap'[storage'[req[r].sid]].pending_order_id
                          = before.pending_order_id
                    /\ heap'[storage'[req[r].sid]].conversation_state
                          = before.conversation_state
               /\ ~saved =>
                    \A s \in Sessions :
                       /\ storage'[s] = 0 <=> storage[s] = 0
                       /\ storage[s] # 0 =>
                            Fields(heap'[storage'[s]]) = Fields(heap[storage[s]])
               /\ d.reply = "created" =>
                    /\ heap'[storage'[req[r].sid]].pending_order_id = d.order_id
                    /\ heap'[storage'[req[r].sid]].conversation_state = "ordered"]_vars

\* ------------------------------------------ properties: reading and expiry
\* C26: get_context does not refresh last_updated. A get_context for a
\* session whose entry was created or last saved more than TTL_MINUTES ago
\* evicts that entry and returns a fresh default context, so the pending
\* order and the last-viewed items are gone; a get_context within
\* TTL_MINUTES returns the entry as it is and leaves its last_updated alone,
\* so reading a context does not keep it from expiring.
C26_GetDoesNotRefresh ==
    [][got'.sid # 0 /\ storage[got'.sid] # 0 =>
         LET s == got'.sid
             entry == heap[storage[s]]
             after == heap'[storage'[s]]
         IN IF now - entry.last_updated > TTL_MINUTES
            THEN /\ s \in got'.evicted
                 /\ got'.fields = DefaultFields
                 /\ storage'[s] # 0
                 /\ Fields(after) = DefaultFields
                 /\ after.last_updated = now
            ELSE /\ got'.fields = Fields(entry)
                 /\ last_op'.op = "get" =>
                       /\ storage'[s] # 0
                       /\ after = entry]_vars

\* a context with a pending order or last-viewed items was read within
\* TTL_MINUTES of its last save and not saved; the next get_context of the
\* session, more than TTL_MINUTES after that save, returned a default context
C26_Witness ==
    /\ got.sid # 0
    /\ got.in_row
    /\ got.prev_fields # DefaultFields
    /\ got.age > TTL_MINUTES
    /\ got.sid \in got.evicted
    /\ got.fields = DefaultFields

\* ------------------------------------------ properties: the shared context
\* the step in which slot r loads its context in a session node
Loads(r) ==
    /\ req[r].pc \in SessionNodes
    /\ req[r].ctx = 0
    /\ req'[r].ctx # 0

\* the step in which slot r leaves a session node after its save
Saves(r) ==
    /\ req[r].ctx # 0
    /\ req'[r].pc = "idle"
    /\ Last(done'.events) = "save"

\* C27: a request that loads the context of a session receives the object
\* the store holds; it is the object another request in flight for the
\* session holds exactly when that request holds the store's object and the
\* entry is unexpired at the load. A request in flight stops holding the
\* store's object only through a clear_context of its session, a
\* get_context that evicts the entry, or the save of a request that holds
\* another object for the session (one loaded before or after such a clear
\* or eviction). What a handler wrote to the object is
\* what every request holding it and the store see, without a load of
\* their own.
C27_SharedContextObject ==
    /\ [][\A r \in Slots : Loads(r) =>
            LET s == req[r].sid
                kept == /\ storage[s] # 0
                        /\ now - heap[storage[s]].last_updated <= TTL_MINUTES
            IN /\ req'[r].ctx = storage'[s]
               /\ \A r2 \in Slots \ {r} :
                    (req[r2].sid = s /\ req[r2].ctx # 0) =>
                       (req'[r2].ctx = req'[r].ctx
                           <=> (kept /\ req[r2].ctx = storage[s]))]_vars
    /\ [][\A r \in Slots :
            (/\ req[r].ctx # 0
             /\ req[r].ctx = storage[req[r].sid]
             /\ req'[r].ctx # 0
             /\ req'[r].ctx # storage'[req[r].sid])
               => \/ last_op'.op = "clear" /\ last_op'.sid = req[r].sid
                  \/ got'.sid # 0 /\ req[r].sid \in got'.evicted
                  \/ \E r2 \in Slots \ {r} :
                        /\ Saves(r2)
                        /\ req[r2].sid = req[r].sid
                        /\ req[r2].ctx # req[r].ctx]_vars
    /\ [][\A r \in Slots : Saves(r) =>
            /\ storage'[req[r].sid] # 0
            /\ Fields(heap'[storage'[req[r].sid]]) = last_op'.fields
            /\ \A r2 \in Slots \ {r} :
                 req[r2].ctx = req[r].ctx =>
                    /\ req'[r2].ctx = storage'[req[r].sid]
                    /\ Fields(heap'[req'[r2].ctx]) = last_op'.fields]_vars

\* a handler stored the products it found in the context while another
\* request for the session, which had loaded the context before, is in
\* flight: that request holds the store's object and the products are in it
C27_Witness ==
    /\ done.outcome = "end"
    /\ Last(done.events) = "save"
    /\ last_op.op = "save"
    /\ last_op.fields.last_viewed_products # <<>>
    /\ last_op.fields.pending_order_id = 0
    /\ \E r2 \in Slots :
          /\ req[r2].pc = "order_await"
          /\ req[r2].sid = last_op.sid
          /\ req[r2].ctx = storage[last_op.sid]
          /\ heap[req[r2].ctx].last_viewed_products
                = last_op.fields.last_viewed_products

====
